---- MODULE Spec2Model ----
(***************************************************************************)
(* Reaction Time Duel: the host (ReactionTimerHost/src/main.cpp).          *)
(*                                                                         *)
(* State: the host's globals.  One action per handler of loop() and one    *)
(* for the ESP-NOW receive callback.                                       *)
(*                                                                         *)
(* Time.  millis() itself is not stored.  Every timestamp variable T of    *)
(* the source (stateStartTime, promptStartTime, joinCompleteTime,          *)
(* collectYellowStart, PendingAck.lastSend) holds the elapsed time         *)
(* millis() - T, so "T = millis()" is T' = 0 and "millis() - T > K" is     *)
(* T > K.  The action Tick lets time pass; elapsed times saturate just     *)
(* above the largest threshold they are compared with.  The source's       *)
(* sentinel assignment "T = 0" (stateStartTime, promptStartTime) is the    *)
(* value Unset.                                                            *)
(***************************************************************************)
EXTENDS Integers, Sequences, FiniteSets, TLC

\* ------------------------------------------------------------------------
\* Bounds of the model
\* ------------------------------------------------------------------------
\* sticks that exist (ID_STICK1 .. ID_STICK1 + NumSticks - 1)
NumSticks == 2
\* milliseconds that pass in one Tick of the game specifications
Quantum == 1000
\* milliseconds that pass in one Tick of the channel specification
FineQuantum == 25
\* rounds a behaviour of the match specification may start
MaxRounds == 1

\* ------------------------------------------------------------------------
\* Program constants
\* ------------------------------------------------------------------------
MAX_PLAYERS == 4
TOTAL_ROUNDS == 5
TIMEOUT_REACTION == 10000
TIMEOUT_SHAKE == 30000
DURATION_FINAL == 15000
NUM_REACT_DELAYS == 3
NUM_SHAKE_TARGETS == 3
REACT_DELAYS == <<10000, 15000, 20000>>
SHAKE_TARGETS == <<10, 15, 20>>
ACK_MAX_RETRIES == 3
ACK_RETRY_INTERVAL == 50
ACK_SLOT_COUNT == 5
PROMPT_DURATION == 5000
SHAKE_ANNOUNCE_DELAY == 4000
SHAKE_ANNOUNCE_DELAY_FIRST == 8500
IDLE_DWELL == 3000
JOIN_COMPLETE_DELAY == 1000
COUNTDOWN_TICK == 1000
RESULTS_PHASE2_DELAY == 3000
RESULTS_TOTAL_DELAY == 6000
NONE == 255

ID_HOST == 0
ID_STICK1 == 1
ID_STICK4 == 4
ID_DISPLAY == 5
ID_BROADCAST == 255

CMD_REQ_ID == 13
CMD_OK == 11
CMD_GAME_START == 33
CMD_IDLE == 36
CMD_COUNTDOWN == 37
CMD_REACTION_DONE == 38
CMD_SHAKE_DONE == 39
DISP_IDLE == 48
DISP_COUNTDOWN == 51
DISP_GO == 52
DISP_REACTION_MODE == 53
DISP_SHAKE_MODE == 54
DISP_TIME_P1 == 55
DISP_ROUND_WINNER == 59
DISP_SCORES == 60
DISP_FINAL_WINNER == 61
MODE_REACTION == 1
MODE_SHAKE == 2

\* the penalty time 0xFFFF ("0xFFFF = timeout/penalty", DisplayProtocol.h)
TIME_PENALTY == 65535

\* Constants of the host's Protocol.h, which is not among the sources: the
\* command codes are distinct codes outside the ranges the other headers use;
\* the announcement delays and the deuce margin are fixed positive values,
\* "longer the first time a mode is played" and "a fixed margin".
DEUCE_LEAD == 2
REACT_ANNOUNCE_DELAY == 3000
REACT_ANNOUNCE_DELAY_FIRST == 6000
CMD_GO == 40
CMD_SHAKE_PROGRESS == 41
CMD_ACK == 42
DISP_DEUCE == 62
DISP_PLAYER_READY == 63
DISP_PLAYER_PROMPT == 64

\* enum HostGameState
STATE_IDLE == 0
STATE_JOIN == 1
STATE_COUNTDOWN == 2
STATE_REACTION == 3
STATE_SHAKE == 4
STATE_COLLECT == 5
STATE_SHOW_RESULTS == 6
STATE_FINAL_WINNER == 7

\* ------------------------------------------------------------------------
\* Derived sets
\* ------------------------------------------------------------------------
Slots == 0 .. (MAX_PLAYERS - 1)
AckSlots == 0 .. (ACK_SLOT_COUNT - 1)
Sticks == ID_STICK1 .. (ID_STICK1 + NumSticks - 1)
Unset == -1
Min(a, b) == IF a < b THEN a ELSE b
\* elapsed time e after d more milliseconds, saturating at cap
Elapse(e, d, cap) == IF e = Unset THEN Unset ELSE Min(e + d, cap)

VARIABLES
  gameState, stateStartTime, players, joinedCount, currentRound,
  inDeuce, deucePlayer, slotToStick, stickClaimed, currentPromptSlot,
  promptStartTime, joinComplete, joinCompleteTime,
  gameMode, delayIdx, targetIdx, lastDelayIdx, lastTargetIdx,
  modeBag, modeBagIdx, reactionInstructPlayed, shakeInstructPlayed,
  reactionAnnouncementDone, reactionFirstInstruct,
  shakeProgress, countdownNum, shakeAnnouncementDone, shakeFirstInstruct,
  collectYellowPhase, collectYellowStart, resultsPhase2,
  pendingAcks,
  outbox,    \* packets handed to esp_now_send by the last step, in order
  txCount,   \* per ack slot: transmissions of the command last handed to sendWithRetry
  fate,      \* per ack slot: what became of that command
  last,      \* the last step taken; for a received packet its source and command and,
             \* for an ACK, the command it acknowledges; for a call of sendWithRetry
             \* its arguments and whether it found the slot waiting
  ret,       \* the last function applied directly, its argument and the value it returned
  looped,    \* loop() has completed an iteration since the last Tick
  roundsLeft, \* rounds the behaviour may still start
  stick      \* the joystick with address MY_ID: its globals, pin, clock and packets sent

hostVars == <<gameState, stateStartTime, players, joinedCount, currentRound,
  inDeuce, deucePlayer, slotToStick, stickClaimed, currentPromptSlot,
  promptStartTime, joinComplete, joinCompleteTime,
  gameMode, delayIdx, targetIdx, lastDelayIdx, lastTargetIdx,
  modeBag, modeBagIdx, reactionInstructPlayed, shakeInstructPlayed,
  reactionAnnouncementDone, reactionFirstInstruct,
  shakeProgress, countdownNum, shakeAnnouncementDone, shakeFirstInstruct,
  collectYellowPhase, collectYellowStart, resultsPhase2>>
chanVars == <<pendingAcks, txCount, fate>>
vars == <<hostVars, chanVars, outbox, last, ret, looped, roundsLeft, stick>>

\* ------------------------------------------------------------------------
\* Helpers
\* ------------------------------------------------------------------------
\* isActivePlayer without the deuce filter
isActivePlayerIn_NoDeuce(P, S, D, DP, i) == P[i].joined /\ S[i] # NONE

\* bool isActivePlayer(uint8_t i), on the given registry
isActivePlayerIn(P, S, D, DP, i) ==
  IF (~P[i].joined) \/ S[i] = NONE THEN FALSE
  ELSE IF D THEN (i = DP[1] \/ i = DP[2])
  ELSE TRUE

isActivePlayer(i) == isActivePlayerIn(players, slotToStick, inDeuce, deucePlayer, i)

\* the for loop of findRoundWinner from index i on
RECURSIVE findRoundWinnerFrom(_, _, _)
findRoundWinnerFrom(i, winner, best) ==
  IF i >= MAX_PLAYERS THEN winner
  ELSE IF isActivePlayer(i) /\ players[i].finished /\ players[i].reactionTime < best
       THEN findRoundWinnerFrom(i + 1, i, players[i].reactionTime)
       ELSE findRoundWinnerFrom(i + 1, winner, best)

\* findRoundWinner with the first comparison one too high: a penalised player can win
findRoundWinner_PenaltyWins == findRoundWinnerFrom(0, NONE, 65536)

findRoundWinner == findRoundWinnerFrom(0, NONE, 65535)

\* the for loop of findFinalWinner from index i on
RECURSIVE findFinalWinnerFrom(_, _, _)
findFinalWinnerFrom(i, winner, best) ==
  IF i >= MAX_PLAYERS THEN winner
  ELSE IF players[i].joined /\ players[i].score > best
       THEN findFinalWinnerFrom(i + 1, i, players[i].score)
       ELSE findFinalWinnerFrom(i + 1, winner, best)

findFinalWinner == findFinalWinnerFrom(0, NONE, 0)

\* checkDeuce: first loop, the highest score among joined players
RECURSIVE checkDeuceMax(_, _, _)
checkDeuceMax(P, i, maxScore) ==
  IF i >= MAX_PLAYERS THEN maxScore
  ELSE IF P[i].joined /\ P[i].score > maxScore
       THEN checkDeuceMax(P, i + 1, P[i].score)
       ELSE checkDeuceMax(P, i + 1, maxScore)

\* checkDeuce: second loop; yields [count, tied]
RECURSIVE checkDeuceTied(_, _, _, _, _)
checkDeuceTied(P, i, maxScore, count, tied) ==
  IF i >= MAX_PLAYERS THEN [count |-> count, tied |-> tied]
  ELSE IF P[i].joined /\ P[i].score = maxScore
       THEN checkDeuceTied(P, i + 1, maxScore, count + 1,
                           IF count < 2 THEN [tied EXCEPT ![count + 1] = i] ELSE tied)
       ELSE checkDeuceTied(P, i + 1, maxScore, count, tied)

\* checkDeuce that also accepts three or four players level at the top
checkDeuce_TwoOrMore(P, DP) ==
  LET r == checkDeuceTied(P, 0, checkDeuceMax(P, 0, 0), 0, <<NONE, NONE>>)
  IN IF r.count >= 2 THEN [result |-> TRUE, deucePlayer |-> r.tied]
     ELSE [result |-> FALSE, deucePlayer |-> DP]

\* bool checkDeuce() on player records P: [result, deucePlayer after the call]
checkDeuce(P, DP) ==
  LET r == checkDeuceTied(P, 0, checkDeuceMax(P, 0, 0), 0, <<NONE, NONE>>)
  IN IF r.count = 2 THEN [result |-> TRUE, deucePlayer |-> r.tied]
     ELSE [result |-> FALSE, deucePlayer |-> DP]

\* a reset that leaves the player joined
resetPlayersRec_StillJoined == [joined |-> TRUE, finished |-> FALSE, reactionTime |-> 65535, score |-> 0]

\* resetPlayers(): the player records after the call
resetPlayersRec == [joined |-> FALSE, finished |-> FALSE, reactionTime |-> 65535, score |-> 0]

\* resetRound(): the player records after the call
resetRound(P) == [i \in Slots |-> [P[i] EXCEPT !.finished = FALSE, !.reactionTime = 65535]]

\* ------------------------------------------------------------------------
\* ACK + retry.  A channel value c is [pa, tx, fate, out]: the pendingAcks
\* table, the two per-slot histories and the packets sent so far in the
\* running step.  A packet of outbox is <<dest, cmd, data, kind>>; kind is
\* "first" for the first attempt of sendWithRetry, "retry" for a
\* retransmission of updateRetries and "plain" for an untracked send.
\* ------------------------------------------------------------------------
Pkt(dest, cmd, data, kind) == <<dest, cmd, data, kind>>

chan0 == [pa |-> pendingAcks, tx |-> txCount, fate |-> fate, out |-> <<>>]

\* int8_t ackSlotFor(uint8_t destId)
ackSlotFor(destId) ==
  IF destId >= ID_STICK1 /\ destId <= ID_STICK4 THEN destId - ID_STICK1
  ELSE IF destId = ID_DISPLAY THEN 4
  ELSE -1

\* void espnowSend(mac, dest, cmd, data)
espnowSend(c, dest, cmd, data) == [c EXCEPT !.out = Append(@, Pkt(dest, cmd, data, "plain"))]

\* void sendToDisplay(cmd, dataHigh, dataLow)
sendToDisplay(c, cmd, dataHigh, dataLow) == espnowSend(c, ID_DISPLAY, cmd, dataHigh * 256 + dataLow)

\* sendWithRetry that keeps a command still pending and drops the new one
sendWithRetry_KeepPending(c, destId, cmd, data) ==
  LET slot == ackSlotFor(destId) IN
  IF slot < 0 \/ c.pa[slot].waiting THEN c
  ELSE [c EXCEPT !.pa[slot] = [waiting |-> TRUE, dest |-> destId, cmd |-> cmd,
                               data |-> data, retries |-> ACK_MAX_RETRIES,
                               lastSend |-> 0],
                 !.tx[slot] = 1,
                 !.fate[slot] = "pending",
                 !.out = Append(@, Pkt(destId, cmd, data, "first"))]

\* void sendWithRetry(uint8_t destId, uint8_t cmd, uint16_t data)
sendWithRetry(c, destId, cmd, data) ==
  LET slot == ackSlotFor(destId) IN
  IF slot < 0 THEN c
  ELSE [c EXCEPT !.pa[slot] = [waiting |-> TRUE, dest |-> destId, cmd |-> cmd,
                               data |-> data, retries |-> ACK_MAX_RETRIES,
                               lastSend |-> 0],
                 !.tx[slot] = 1,
                 !.fate[slot] = "pending",
                 !.out = Append(@, Pkt(destId, cmd, data, "first"))]

\* void sendToDisplayWithRetry(cmd, dataHigh, dataLow)
sendToDisplayWithRetry(c, cmd, dataHigh, dataLow) ==
  sendWithRetry(c, ID_DISPLAY, cmd, dataHigh * 256 + dataLow)

\* the for loop of sendToJoysticksWithRetry from index i on, on the given registry
RECURSIVE sendToJoysticksFrom(_, _, _, _, _, _, _, _)
sendToJoysticksFrom(c, i, P, S, D, DP, cmd, data) ==
  IF i >= MAX_PLAYERS THEN c
  ELSE sendToJoysticksFrom(IF isActivePlayerIn(P, S, D, DP, i)
                             THEN sendWithRetry(c, S[i], cmd, data) ELSE c,
                           i + 1, P, S, D, DP, cmd, data)

\* void sendToJoysticksWithRetry(cmd, data), registry as it is before the step
sendToJoysticksWithRetry(c, cmd, data) ==
  sendToJoysticksFrom(c, 0, players, slotToStick, inDeuce, deucePlayer, cmd, data)

\* void sendGO()
sendGO(c) == sendToJoysticksWithRetry(c, CMD_GO, 0)

\* the iteration of updateRetries giving up one retry early
updateRetriesSlot_OneShort(c, i) ==
  LET pa == c.pa[i] IN
  IF ~pa.waiting THEN c
  ELSE IF pa.lastSend < ACK_RETRY_INTERVAL THEN c
  ELSE IF pa.retries > 1
       THEN [c EXCEPT !.pa[i].retries = @ - 1,
                      !.pa[i].lastSend = 0,
                      !.tx[i] = @ + 1,
                      !.out = Append(@, Pkt(pa.dest, pa.cmd, pa.data, "retry"))]
       ELSE [c EXCEPT !.pa[i].waiting = FALSE,
                      !.fate[i] = "abandoned"]

\* one iteration of the for loop of updateRetries, for slot i
updateRetriesSlot(c, i) ==
  LET pa == c.pa[i] IN
  IF ~pa.waiting THEN c
  ELSE IF pa.lastSend < ACK_RETRY_INTERVAL THEN c
  ELSE IF pa.retries > 0
       THEN [c EXCEPT !.pa[i].retries = @ - 1,
                      !.pa[i].lastSend = 0,
                      !.tx[i] = @ + 1,
                      !.out = Append(@, Pkt(pa.dest, pa.cmd, pa.data, "retry"))]
       ELSE [c EXCEPT !.pa[i].waiting = FALSE,
                      !.fate[i] = "abandoned"]

RECURSIVE updateRetriesFrom(_, _)
updateRetriesFrom(c, i) ==
  IF i >= ACK_SLOT_COUNT THEN c
  ELSE updateRetriesFrom(updateRetriesSlot(c, i), i + 1)

\* handleAck that does not compare the acknowledged command
handleAck_AnyCmd(c, srcId, ackedCmd) ==
  LET slot == ackSlotFor(srcId) IN
  IF slot < 0 THEN c
  ELSE IF c.pa[slot].waiting
       THEN [c EXCEPT !.pa[slot].waiting = FALSE, !.fate[slot] = "acked"]
       ELSE c

\* void handleAck(uint8_t srcId, uint8_t ackedCmd)
handleAck(c, srcId, ackedCmd) ==
  LET slot == ackSlotFor(srcId) IN
  IF slot < 0 THEN c
  ELSE IF c.pa[slot].waiting /\ c.pa[slot].cmd = ackedCmd
       THEN [c EXCEPT !.pa[slot].waiting = FALSE, !.fate[slot] = "acked"]
       ELSE c

\* the assignments every step makes for the channel value it ends with
SetChan(c) ==
  \E ch \in {c} :
    /\ pendingAcks' = ch.pa
    /\ txCount' = ch.tx
    /\ fate' = ch.fate
    /\ outbox' = ch.out

PendingInit == [waiting |-> FALSE, dest |-> 0, cmd |-> 0, data |-> 0, retries |-> 0, lastSend |-> 0]

\* ------------------------------------------------------------------------
\* Groups of variables
\* ------------------------------------------------------------------------
regVars == <<players, joinedCount, slotToStick, stickClaimed>>
deuceVars == <<inDeuce, deucePlayer>>
joinVars == <<currentPromptSlot, promptStartTime, joinComplete, joinCompleteTime>>
bagVars == <<modeBag, modeBagIdx>>
modeVars == <<gameMode, delayIdx, targetIdx, lastDelayIdx, lastTargetIdx>>
instructVars == <<reactionInstructPlayed, shakeInstructPlayed, reactionFirstInstruct, shakeFirstInstruct>>
announceVars == <<reactionAnnouncementDone, shakeAnnouncementDone, countdownNum>>
collectVars == <<collectYellowPhase, collectYellowStart>>

Step(op) == [op |-> op, src |-> 0, cmd |-> 0, data |-> 0, found |-> FALSE]
\* ret before any function has been applied directly; after f(arg) it is [f, arg, val]
NoCall == [f |-> "none", arg |-> 0, val |-> 0]

\* ------------------------------------------------------------------------
\* The joystick (src/ReactionTimerSlave).  stick holds the globals of the
\* joystick with address MY_ID, the level of its button pin, its clock and
\* the packets it has handed to esp_now_send that the host has not received
\* yet.  The clock counts units of 8 microseconds since boot: micros() is a
\* 32-bit counter of microseconds, so it wraps every 2^29 units, and a
\* millisecond is 125 units.  g_go_time_us and g_button_time_us hold values
\* of micros() in the same unit.
\* ------------------------------------------------------------------------
MY_ID == ID_STICK1
SHAKE_THRESHOLD_HIGH == 6000
SHAKE_THRESHOLD_LOW == 2000
DEBOUNCE_MS == 50
STICK_TIMEOUT_REACTION == 5000
STICK_TIMEOUT_SHAKE == 30000
JS_IDLE == 0
JS_WAITING_GO == 1
JS_REACTION_TIMING == 2
JS_SHAKE_COUNTING == 3
JS_DONE == 4

UnitsPerMs == 125
MicrosWrap == 2^29

\* micros() and millis() at the clock of s
micros(s) == s.clock % MicrosWrap
millis(s) == s.clock \div UnitsPerMs

\* no sample: mpuReadAccel failed
ReadFailed == -1

\* the joystick after power-up; goClock is the clock when GO was last handled,
\* pressClock the clock when onButton last took a press, startClock the clock
\* when CMD_GAME_START was last handled, downAtGo whether the button was down
\* when GO was last handled, edge whether it has gone down since,
\* samples the energies the shake latch has been fed since shakeReset, out the
\* packets sent by the last step, early whether the last GO met a pressed button,
\* pass the parity of the passes of runJoystick
StickBoot ==
  [jsState |-> JS_IDLE, currentMode |-> MODE_REACTION, shakeTarget |-> 10, assignedSlot |-> 0,
   lastButtonState |-> "HIGH", lastButtonChange |-> 0, joinSent |-> FALSE,
   g_go_time_us |-> 0, g_go_received |-> FALSE, g_button_time_us |-> 0, g_button_pressed |-> FALSE,
   shakeCount |-> 0, shakePeaked |-> FALSE, shakeStartTime_ms |-> 0, shakeLpfReady |-> FALSE,
   pin |-> "HIGH", clock |-> 0, ticks |-> 0, pass |-> 0, uplink |-> <<>>,
   goClock |-> 0, pressClock |-> 0, startClock |-> 0, downAtGo |-> FALSE, edge |-> FALSE,
   samples |-> <<>>, out |-> <<>>, early |-> FALSE, op |-> "boot"]

\* the handler that takes every falling edge
onButton_Unguarded(s) ==
  [s EXCEPT !.g_button_time_us = micros(s), !.g_button_pressed = TRUE, !.pressClock = s.clock,
            !.edge = TRUE]

\* void IRAM_ATTR onButton(): the falling edge of the button pin
onButton(s) ==
  IF s.g_go_received /\ s.jsState = JS_REACTION_TIMING
  THEN [s EXCEPT !.g_button_time_us = micros(s), !.g_button_pressed = TRUE,
                 !.pressClock = s.clock, !.edge = TRUE]
  ELSE [s EXCEPT !.edge = TRUE]

\* void handleGO()
handleGO(s) ==
  [s EXCEPT !.g_go_time_us = micros(s), !.g_go_received = TRUE, !.goClock = s.clock,
            !.downAtGo = (s.pin = "LOW"), !.edge = FALSE]

\* void sendToHost(uint8_t cmd, uint16_t data)
sendToHost(s, cmd, data) ==
  [s EXCEPT !.uplink = Append(@, <<cmd, data>>), !.out = Append(@, <<cmd, data>>)]

\* the joystick's OnDataRecv for a valid packet addressed to it
StickOnDataRecv(s, cmd, data) ==
  IF cmd = CMD_IDLE
  THEN [s EXCEPT !.jsState = JS_IDLE, !.assignedSlot = 0, !.joinSent = FALSE,
                 !.g_go_received = FALSE, !.g_button_pressed = FALSE]
  ELSE IF cmd = CMD_OK
  THEN [s EXCEPT !.assignedSlot = data % 256]
  ELSE IF cmd = CMD_GAME_START
  THEN [s EXCEPT !.currentMode = data \div 256, !.shakeTarget = data % 256,
                 !.jsState = JS_WAITING_GO, !.g_go_received = FALSE, !.g_button_pressed = FALSE,
                 !.startClock = s.clock]
  ELSE IF cmd = CMD_GO /\ s.jsState = JS_WAITING_GO
  THEN handleGO(s)
  ELSE s

\* void shakeReset()
shakeReset(s) ==
  [s EXCEPT !.shakeCount = 0, !.shakePeaked = FALSE, !.shakeLpfReady = FALSE,
            !.shakeStartTime_ms = millis(s), !.samples = <<>>]

\* the latch that takes a sample equal to SHAKE_THRESHOLD_HIGH for a peak
shakeLatch_AtThreshold(s, energy) ==
  LET s1 == [s EXCEPT !.samples = Append(@, energy)] IN
  IF ~s.shakePeaked
  THEN IF energy >= SHAKE_THRESHOLD_HIGH THEN [s1 EXCEPT !.shakePeaked = TRUE] ELSE s1
  ELSE IF energy < SHAKE_THRESHOLD_LOW
       THEN [s1 EXCEPT !.shakeCount = (@ + 1) % 65536, !.shakePeaked = FALSE]
       ELSE s1

\* shakeUpdate: the hysteresis state machine, fed one energy sample
shakeLatch(s, energy) ==
  LET s1 == [s EXCEPT !.samples = Append(@, energy)] IN
  IF ~s.shakePeaked
  THEN IF energy > SHAKE_THRESHOLD_HIGH THEN [s1 EXCEPT !.shakePeaked = TRUE] ELSE s1
  ELSE IF energy < SHAKE_THRESHOLD_LOW
       THEN [s1 EXCEPT !.shakeCount = (@ + 1) % 65536, !.shakePeaked = FALSE]
       ELSE s1

\* uint16_t shakeUpdate(), the accelerometer giving the energy sample or
\* ReadFailed: [st, result]
shakeUpdate(s, energy) ==
  IF energy = ReadFailed THEN [st |-> s, result |-> 0]
  ELSE IF ~s.shakeLpfReady THEN [st |-> [s EXCEPT !.shakeLpfReady = TRUE], result |-> 0]
  ELSE LET s1 == shakeLatch(s, energy)
           elapsed == millis(s1) - s1.shakeStartTime_ms
       IN IF s1.shakeCount >= s1.shakeTarget
          THEN [st |-> s1, result |-> Min(elapsed, 65534)]
          ELSE IF elapsed > STICK_TIMEOUT_SHAKE
          THEN [st |-> s1, result |-> TIME_PENALTY]
          ELSE [st |-> s1, result |-> 0]

\* runJoystick, case JS_IDLE
runIdle(s) ==
  LET now == millis(s)
      s1 == IF s.pin # s.lastButtonState
            THEN [s EXCEPT !.lastButtonChange = now, !.lastButtonState = s.pin]
            ELSE s
      s2 == IF s.pin = "LOW" /\ (now - s1.lastButtonChange) > DEBOUNCE_MS /\ ~s1.joinSent
            THEN [(IF s1.assignedSlot = 0 THEN sendToHost(s1, CMD_REQ_ID, 0) ELSE s1)
                    EXCEPT !.joinSent = TRUE]
            ELSE s1
  IN IF s.pin = "HIGH" THEN [s2 EXCEPT !.joinSent = FALSE] ELSE s2

\* case JS_WAITING_GO without the test of the button
runWaitingGo_NoEarlyCheck(s) ==
  IF ~s.g_go_received THEN s
  ELSE IF s.currentMode = MODE_REACTION
  THEN [s EXCEPT !.jsState = JS_REACTION_TIMING, !.early = (s.pin = "LOW")]
  ELSE IF s.currentMode = MODE_SHAKE
  THEN [shakeReset(s) EXCEPT !.jsState = JS_SHAKE_COUNTING]
  ELSE s

\* runJoystick, case JS_WAITING_GO
runWaitingGo(s) ==
  IF ~s.g_go_received THEN s
  ELSE IF s.currentMode = MODE_REACTION
  THEN IF s.pin = "LOW"
       THEN [sendToHost(s, CMD_REACTION_DONE, TIME_PENALTY) EXCEPT !.jsState = JS_DONE,
                                                             !.early = TRUE]
       ELSE [s EXCEPT !.jsState = JS_REACTION_TIMING, !.early = FALSE]
  ELSE IF s.currentMode = MODE_SHAKE
  THEN [shakeReset(s) EXCEPT !.jsState = JS_SHAKE_COUNTING]
  ELSE s

\* runJoystick, case JS_REACTION_TIMING, pressed the value read from
\* g_button_pressed
runReactionTimingSeen(s, pressed) ==
  LET elapsed_us == (s.g_button_time_us - s.g_go_time_us) % MicrosWrap
      elapsed_ms == (elapsed_us \div UnitsPerMs) % 65536
      s1 == IF pressed
            THEN [sendToHost(s, CMD_REACTION_DONE, IF elapsed_ms = 0 THEN 1 ELSE elapsed_ms)
                    EXCEPT !.jsState = JS_DONE]
            ELSE s
  IN IF millis(s) > (s.g_go_time_us \div UnitsPerMs) + STICK_TIMEOUT_REACTION
     THEN [sendToHost(s1, CMD_REACTION_DONE, TIME_PENALTY) EXCEPT !.jsState = JS_DONE]
     ELSE s1

runReactionTiming(s) == runReactionTimingSeen(s, s.g_button_pressed)

\* runJoystick, case JS_SHAKE_COUNTING
runShakeCounting(s, energy) ==
  LET u == shakeUpdate(s, energy) IN
  IF u.result > 0
  THEN [sendToHost(u.st, CMD_SHAKE_DONE, u.result) EXCEPT !.jsState = JS_DONE]
  ELSE u.st

\* void runJoystick()
runJoystick(s, energy) ==
  LET s0 == [s EXCEPT !.out = <<>>, !.pass = 1 - @] IN
  CASE s.jsState = JS_IDLE -> runIdle(s0)
    [] s.jsState = JS_WAITING_GO -> runWaitingGo(s0)
    [] s.jsState = JS_REACTION_TIMING -> runReactionTiming(s0)
    [] s.jsState = JS_SHAKE_COUNTING -> runShakeCounting(s0, energy)
    [] OTHER -> s0

\* ------------------------------------------------------------------------
\* Init: the globals as initialised at their definitions; setup() leaves
\* them alone.
\* ------------------------------------------------------------------------
Init ==
  /\ gameState = STATE_IDLE
  /\ stateStartTime = Unset
  /\ players = [i \in Slots |-> [joined |-> FALSE, finished |-> FALSE, reactionTime |-> 0, score |-> 0]]
  /\ joinedCount = 0
  /\ currentRound = 0
  /\ inDeuce = FALSE
  /\ deucePlayer = <<NONE, NONE>>
  /\ slotToStick = [i \in Slots |-> NONE]
  /\ stickClaimed = [i \in Slots |-> 0]
  /\ currentPromptSlot = 0
  /\ promptStartTime = Unset
  /\ joinComplete = FALSE
  /\ joinCompleteTime = 0
  /\ gameMode = MODE_REACTION
  /\ delayIdx = 0
  /\ targetIdx = 0
  /\ lastDelayIdx = NONE
  /\ lastTargetIdx = NONE
  /\ modeBag = <<MODE_REACTION, MODE_SHAKE>>
  /\ modeBagIdx = 2
  /\ reactionInstructPlayed = FALSE
  /\ shakeInstructPlayed = FALSE
  /\ reactionAnnouncementDone = FALSE
  /\ reactionFirstInstruct = FALSE
  /\ shakeProgress = [i \in Slots |-> 0]
  /\ countdownNum = 3
  /\ shakeAnnouncementDone = FALSE
  /\ shakeFirstInstruct = FALSE
  /\ collectYellowPhase = FALSE
  /\ collectYellowStart = 0
  /\ resultsPhase2 = FALSE
  /\ pendingAcks = [i \in AckSlots |-> PendingInit]
  /\ txCount = [i \in AckSlots |-> 0]
  /\ fate = [i \in AckSlots |-> "none"]
  /\ outbox = <<>>
  /\ stick = StickBoot
  /\ last = Step("init")
  /\ ret = NoCall
  /\ looped = TRUE
  /\ roundsLeft = MaxRounds

\* ------------------------------------------------------------------------
\* Time passes: d milliseconds
\* ------------------------------------------------------------------------
\* A timestamp is followed only while the program can still read it: the
\* largest value its elapsed time is compared with before it is assigned
\* again (0: it is not read before its next assignment).
CapStateStart ==
  CASE gameState = STATE_IDLE -> IDLE_DWELL + 1
    [] gameState = STATE_JOIN -> 0
    [] gameState = STATE_COUNTDOWN -> SHAKE_ANNOUNCE_DELAY_FIRST + 1
    [] gameState = STATE_REACTION -> REACT_DELAYS[NUM_REACT_DELAYS] + 1
    [] gameState = STATE_SHAKE -> TIMEOUT_SHAKE + 1
    [] gameState = STATE_COLLECT -> TIMEOUT_REACTION + 1
    [] gameState = STATE_SHOW_RESULTS -> RESULTS_TOTAL_DELAY + 1
    [] OTHER -> DURATION_FINAL + 1
CapPromptStart == IF gameState = STATE_JOIN /\ ~joinComplete THEN PROMPT_DURATION + 1 ELSE 0
CapJoinComplete == IF gameState = STATE_JOIN /\ joinComplete THEN JOIN_COMPLETE_DELAY + 1 ELSE 0
CapYellowStart == IF gameState = STATE_COLLECT /\ collectYellowPhase THEN TIMEOUT_REACTION + 1 ELSE 0
CapLastSend(pa) == IF pa.waiting THEN ACK_RETRY_INTERVAL ELSE 0

\* d milliseconds pass.  At most one quantum passes per iteration of loop(),
\* which never blocks.
Tick(d) ==
  /\ looped
  /\ looped' = FALSE
  /\ stateStartTime' = Elapse(stateStartTime, d, CapStateStart)
  /\ promptStartTime' = Elapse(promptStartTime, d, CapPromptStart)
  /\ joinCompleteTime' = Elapse(joinCompleteTime, d, CapJoinComplete)
  /\ collectYellowStart' = Elapse(collectYellowStart, d, CapYellowStart)
  /\ pendingAcks' = [i \in AckSlots |->
        [pendingAcks[i] EXCEPT !.lastSend = Elapse(@, d, CapLastSend(pendingAcks[i]))]]
  /\ UNCHANGED stick
  /\ last' = Step("Tick")
  /\ outbox' = <<>>
  /\ UNCHANGED <<gameState, regVars, currentRound, deuceVars, currentPromptSlot, joinComplete,
                 bagVars, modeVars, instructVars, announceVars, shakeProgress,
                 collectYellowPhase, resultsPhase2, txCount, fate, ret, roundsLeft>>

\* ------------------------------------------------------------------------
\* loop().  One action per case of the switch: an iteration of loop() in that
\* state, updateRetries() first and the state's handler after it.
\* ------------------------------------------------------------------------
\* void updateRetries(): the channel after the call
updateRetries == updateRetriesFrom(chan0, 0)

\* ------------------------------------------------------------------------
\* loop(): case STATE_IDLE: handleIdle()
\* ------------------------------------------------------------------------
HandleIdle ==
  /\ gameState = STATE_IDLE
  /\ LET entry == stateStartTime = Unset
         sst == IF entry THEN 0 ELSE stateStartTime
         \* resetPlayers()
         P1 == IF entry THEN [i \in Slots |-> resetPlayersRec] ELSE players
         S1 == IF entry THEN [i \in Slots |-> NONE] ELSE slotToStick
         c1 == IF entry
               THEN [updateRetries EXCEPT !.pa = [i \in AckSlots |-> [updateRetries.pa[i] EXCEPT !.waiting = FALSE]],
                                  !.fate = [i \in AckSlots |->
                                              IF updateRetries.pa[i].waiting THEN "reset" ELSE updateRetries.fate[i]]]
               ELSE updateRetries
         c2 == IF entry
               THEN sendToDisplayWithRetry(
                      sendToJoysticksFrom(c1, 0, P1, S1, FALSE, <<NONE, NONE>>, CMD_IDLE, 0),
                      DISP_IDLE, 0, 0)
               ELSE updateRetries
         leave == sst > IDLE_DWELL
     IN /\ players' = P1
        /\ slotToStick' = S1
        /\ stickClaimed' = IF entry THEN [i \in Slots |-> 0] ELSE stickClaimed
        /\ joinedCount' = IF entry THEN 0 ELSE joinedCount
        /\ currentPromptSlot' = IF entry THEN 0 ELSE currentPromptSlot
        /\ modeBagIdx' = IF entry THEN 2 ELSE modeBagIdx
        /\ reactionInstructPlayed' = IF entry THEN FALSE ELSE reactionInstructPlayed
        /\ shakeInstructPlayed' = IF entry THEN FALSE ELSE shakeInstructPlayed
        /\ inDeuce' = IF entry THEN FALSE ELSE inDeuce
        /\ deucePlayer' = IF entry THEN <<NONE, NONE>> ELSE deucePlayer
        /\ currentRound' = IF entry THEN 0 ELSE currentRound
        /\ SetChan(c2)
        /\ gameState' = IF leave THEN STATE_JOIN ELSE STATE_IDLE
        /\ stateStartTime' = IF leave THEN Unset ELSE sst
  /\ looped' = TRUE
  /\ UNCHANGED roundsLeft
  /\ UNCHANGED stick
  /\ last' = Step("handleIdle")
  /\ UNCHANGED <<promptStartTime, joinComplete, joinCompleteTime, modeBag, modeVars,
                 reactionFirstInstruct, shakeFirstInstruct, announceVars, shakeProgress,
                 collectVars, resultsPhase2, ret>>

\* ------------------------------------------------------------------------
\* loop(): case STATE_JOIN: handleJoin()
\* ------------------------------------------------------------------------
\* void startPromptSlot(uint8_t slot): the channel after the call
startPromptSlot(c, slot) == sendToDisplayWithRetry(c, DISP_PLAYER_PROMPT, 0, slot + 1)

\* the while loop of handleJoin: the next unclaimed slot from nextSlot on
RECURSIVE nextUnclaimed(_)
nextUnclaimed(nextSlot) ==
  IF nextSlot < MAX_PLAYERS /\ slotToStick[nextSlot] # NONE
  THEN nextUnclaimed(nextSlot + 1)
  ELSE nextSlot

\* the test of handleJoin that lets a match start with one joined player
tooFewJoined_One(count) == count < 1

\* handleJoin: if (joinedCount < 2), the test that restarts the prompts
tooFewJoined(count) == count < 2

HandleJoin ==
  /\ gameState = STATE_JOIN
  /\ LET entry == stateStartTime = Unset
         sst == IF entry THEN 0 ELSE stateStartTime
         jc0 == IF entry THEN FALSE ELSE joinComplete
         c0 == IF entry THEN startPromptSlot(updateRetries, 0) ELSE updateRetries
         cps0 == IF entry THEN 0 ELSE currentPromptSlot
         pst0 == IF entry THEN 0 ELSE promptStartTime
         shouldAdvance == pst0 = Unset \/ pst0 > PROMPT_DURATION
         nextSlot == nextUnclaimed(cps0 + 1)
     IN IF jc0
        THEN \* waiting 1s after join complete
             /\ IF joinCompleteTime > JOIN_COMPLETE_DELAY
                THEN /\ gameState' = STATE_COUNTDOWN
                     /\ stateStartTime' = Unset
                     /\ countdownNum' = 3
                ELSE /\ gameState' = gameState
                     /\ stateStartTime' = sst
                     /\ countdownNum' = countdownNum
             /\ SetChan(c0)
             /\ UNCHANGED joinVars
        ELSE /\ countdownNum' = countdownNum
             /\ gameState' = gameState
             /\ stateStartTime' = sst
             /\ IF shouldAdvance
                THEN IF nextSlot >= MAX_PLAYERS
                     THEN IF tooFewJoined(joinedCount)
                          THEN \* restart the prompts
                               /\ currentPromptSlot' = 0
                               /\ promptStartTime' = 0
                               /\ SetChan(startPromptSlot(c0, 0))
                               /\ joinComplete' = jc0
                               /\ UNCHANGED joinCompleteTime
                          ELSE /\ joinComplete' = TRUE
                               /\ joinCompleteTime' = 0
                               /\ currentPromptSlot' = cps0
                               /\ promptStartTime' = pst0
                               /\ SetChan(c0)
                     ELSE \* prompt next slot, then the all-joined check
                          /\ currentPromptSlot' = nextSlot
                          /\ promptStartTime' = 0
                          /\ SetChan(startPromptSlot(c0, nextSlot))
                          /\ IF joinedCount >= MAX_PLAYERS
                             THEN joinComplete' = TRUE /\ joinCompleteTime' = 0
                             ELSE joinComplete' = jc0 /\ UNCHANGED joinCompleteTime
                ELSE /\ currentPromptSlot' = cps0
                     /\ promptStartTime' = pst0
                     /\ SetChan(c0)
                     /\ IF joinedCount >= MAX_PLAYERS
                        THEN joinComplete' = TRUE /\ joinCompleteTime' = 0
                        ELSE joinComplete' = jc0 /\ UNCHANGED joinCompleteTime
  /\ looped' = TRUE
  /\ UNCHANGED roundsLeft
  /\ UNCHANGED stick
  /\ last' = Step("handleJoin")
  /\ UNCHANGED <<regVars, currentRound, deuceVars, bagVars, modeVars, instructVars,
                 reactionAnnouncementDone, shakeAnnouncementDone, shakeProgress,
                 collectVars, resultsPhase2, ret>>

\* ------------------------------------------------------------------------
\* loop(): case STATE_COUNTDOWN: handleCountdown()
\* ------------------------------------------------------------------------
\* uint8_t getRandomIndex(uint8_t *last, uint8_t max): the values random() can end the do-while with
getRandomIndex(lastIdx, max) == {idx \in 0 .. (max - 1) : ~(idx = lastIdx /\ max > 1)}

\* getNextGameMode that reshuffles at every call
getNextGameMode_AlwaysReshuffle(swap) ==
  LET bag == IF swap THEN <<modeBag[2], modeBag[1]>> ELSE modeBag
  IN [mode |-> bag[1], modeBag |-> bag, modeBagIdx |-> 1]

\* uint8_t getNextGameMode(): [mode, modeBag, modeBagIdx] when random(2) == 0 is swap
getNextGameMode(swap) ==
  LET reshuffle == modeBagIdx >= 2
      idx0 == IF reshuffle THEN 0 ELSE modeBagIdx
      bag == IF reshuffle /\ swap THEN <<modeBag[2], modeBag[1]>> ELSE modeBag
  IN [mode |-> bag[idx0 + 1], modeBag |-> bag, modeBagIdx |-> idx0 + 1]

\* the countdown pulse sent after the value has been decremented
sendCountdown_Decremented(c, n) ==
  sendToJoysticksWithRetry(sendToDisplayWithRetry(c, DISP_COUNTDOWN, 0, n - 1), CMD_COUNTDOWN, n - 1)

\* the countdown pulse: display and sticks
sendCountdown(c, n) ==
  sendToJoysticksWithRetry(sendToDisplayWithRetry(c, DISP_COUNTDOWN, 0, n), CMD_COUNTDOWN, n)

\* the announcement that carries the chosen delay index in CMD_GAME_START
announceReaction_WithDelay(c, idx) ==
  sendToJoysticksWithRetry(sendToDisplayWithRetry(c, DISP_REACTION_MODE, 0, 0),
                           CMD_GAME_START, MODE_REACTION * 256 + idx)

\* handleCountdown, gameMode == MODE_REACTION, delayIdx == idx: the packets of
\* the announcement, "sendToDisplayWithRetry(DISP_REACTION_MODE, 0, 0)" and
\* "sendToJoysticksWithRetry(CMD_GAME_START, ((uint16_t)gameMode << 8) | 0)"
announceReaction(c, idx) ==
  sendToJoysticksWithRetry(sendToDisplayWithRetry(c, DISP_REACTION_MODE, 0, 0),
                           CMD_GAME_START, MODE_REACTION * 256)

\* (counted: the round is one of the roundsLeft rounds a bounded behaviour plays)
handleCountdownEntry(counted) ==
  /\ gameState = STATE_COUNTDOWN
  /\ stateStartTime = Unset
  /\ counted => roundsLeft > 0
  /\ \E swap \in BOOLEAN :
       LET g == getNextGameMode(swap) IN
       /\ modeBag' = g.modeBag
       /\ modeBagIdx' = g.modeBagIdx
       /\ players' = resetRound(players)
       /\ shakeProgress' = [i \in Slots |-> 0]
       /\ currentRound' = (currentRound + 1) % 256
       /\ IF g.mode = MODE_REACTION
          THEN /\ gameMode' = MODE_REACTION
               /\ \E idx \in getRandomIndex(lastDelayIdx, NUM_REACT_DELAYS) :
                     /\ delayIdx' = idx /\ lastDelayIdx' = idx
                     /\ SetChan(announceReaction(updateRetries, idx))
               /\ reactionInstructPlayed' = TRUE
               /\ reactionFirstInstruct' = ~reactionInstructPlayed
               /\ reactionAnnouncementDone' = FALSE
               /\ gameState' = STATE_REACTION
               /\ stateStartTime' = Unset
               /\ UNCHANGED <<targetIdx, lastTargetIdx, shakeInstructPlayed, shakeFirstInstruct,
                              shakeAnnouncementDone, countdownNum>>
          ELSE /\ gameMode' = MODE_SHAKE
               /\ \E idx \in getRandomIndex(lastTargetIdx, NUM_SHAKE_TARGETS) :
                     /\ targetIdx' = idx /\ lastTargetIdx' = idx
                     /\ SetChan(sendToJoysticksWithRetry(
                                  sendToDisplayWithRetry(updateRetries, DISP_SHAKE_MODE, 0, SHAKE_TARGETS[idx + 1]),
                                  CMD_GAME_START, MODE_SHAKE * 256 + SHAKE_TARGETS[idx + 1]))
               /\ shakeInstructPlayed' = TRUE
               /\ shakeFirstInstruct' = ~shakeInstructPlayed
               /\ shakeAnnouncementDone' = FALSE
               /\ countdownNum' = 3
               /\ gameState' = gameState
               /\ stateStartTime' = 0
               /\ UNCHANGED <<delayIdx, lastDelayIdx, reactionInstructPlayed, reactionFirstInstruct,
                              reactionAnnouncementDone>>
  /\ looped' = TRUE
  /\ roundsLeft' = IF counted THEN roundsLeft - 1 ELSE roundsLeft
  /\ UNCHANGED stick
  /\ last' = Step("handleCountdown")
  /\ UNCHANGED <<joinedCount, slotToStick, stickClaimed, deuceVars, joinVars, collectVars,
                 resultsPhase2, ret>>

HandleCountdownEntry == handleCountdownEntry(TRUE)

HandleCountdownWait ==
  /\ gameState = STATE_COUNTDOWN
  /\ stateStartTime # Unset
  /\ IF gameMode = MODE_SHAKE /\ ~shakeAnnouncementDone
     THEN \* wait for announcements to finish
          IF stateStartTime > (IF shakeFirstInstruct THEN SHAKE_ANNOUNCE_DELAY_FIRST
                                                     ELSE SHAKE_ANNOUNCE_DELAY)
          THEN /\ shakeAnnouncementDone' = TRUE
               /\ stateStartTime' = 0
               /\ SetChan(sendCountdown(updateRetries, countdownNum))
               /\ countdownNum' = countdownNum - 1
               /\ gameState' = gameState
          ELSE /\ SetChan(updateRetries)
               /\ UNCHANGED <<shakeAnnouncementDone, stateStartTime, countdownNum, gameState>>
     ELSE \* tick every second
          IF stateStartTime > COUNTDOWN_TICK
          THEN IF countdownNum > 0
               THEN /\ stateStartTime' = 0
                    /\ SetChan(sendCountdown(updateRetries, countdownNum))
                    /\ countdownNum' = countdownNum - 1
                    /\ UNCHANGED <<shakeAnnouncementDone, gameState>>
               ELSE /\ SetChan(sendGO(sendToDisplayWithRetry(updateRetries, DISP_GO, 0, 0)))
                    /\ gameState' = STATE_SHAKE
                    /\ stateStartTime' = Unset
                    /\ UNCHANGED <<shakeAnnouncementDone, countdownNum>>
          ELSE /\ SetChan(updateRetries)
               /\ UNCHANGED <<shakeAnnouncementDone, stateStartTime, countdownNum, gameState>>
  /\ looped' = TRUE
  /\ UNCHANGED roundsLeft
  /\ UNCHANGED stick
  /\ last' = Step("handleCountdown")
  /\ UNCHANGED <<regVars, currentRound, deuceVars, joinVars, bagVars, modeVars, instructVars,
                 reactionAnnouncementDone, shakeProgress, collectVars, resultsPhase2, ret>>

HandleCountdown == HandleCountdownEntry \/ HandleCountdownWait

\* ------------------------------------------------------------------------
\* loop(): case STATE_REACTION: handleReaction()
\* ------------------------------------------------------------------------
\* (d: the value of delayIdx the handler reads)
handleReaction(d) ==
  /\ gameState = STATE_REACTION
  /\ LET sst == IF stateStartTime = Unset THEN 0 ELSE stateStartTime IN
     IF ~reactionAnnouncementDone
     THEN /\ IF sst > (IF reactionFirstInstruct THEN REACT_ANNOUNCE_DELAY_FIRST
                                                ELSE REACT_ANNOUNCE_DELAY)
             THEN reactionAnnouncementDone' = TRUE /\ stateStartTime' = 0
             ELSE reactionAnnouncementDone' = FALSE /\ stateStartTime' = sst
          /\ SetChan(updateRetries)
          /\ gameState' = gameState
     ELSE /\ IF sst >= REACT_DELAYS[d + 1]
             THEN /\ SetChan(sendGO(sendToDisplayWithRetry(updateRetries, DISP_GO, 0, 0)))
                  /\ gameState' = STATE_COLLECT
                  /\ stateStartTime' = Unset
             ELSE /\ SetChan(updateRetries)
                  /\ gameState' = gameState
                  /\ stateStartTime' = sst
          /\ UNCHANGED reactionAnnouncementDone
  /\ looped' = TRUE
  /\ UNCHANGED roundsLeft
  /\ UNCHANGED stick
  /\ last' = Step("handleReaction")
  /\ UNCHANGED <<regVars, currentRound, deuceVars, joinVars, bagVars, modeVars, instructVars,
                 shakeAnnouncementDone, countdownNum, shakeProgress, collectVars,
                 resultsPhase2, ret>>

HandleReaction == handleReaction(delayIdx)

\* the timeout that marks nobody
penalizeUnfinished_MarksNobody(P) == P

\* ------------------------------------------------------------------------
\* loop(): case STATE_SHAKE / STATE_COLLECT
\* ------------------------------------------------------------------------
\* "for each i: if (isActivePlayer(i) && !players[i].finished) { finished = true; reactionTime = TIME_PENALTY }"
penalizeUnfinished(P) ==
  [i \in Slots |-> IF isActivePlayer(i) /\ ~P[i].finished
                   THEN [P[i] EXCEPT !.finished = TRUE, !.reactionTime = TIME_PENALTY]
                   ELSE P[i]]

\* the allDone loop of handleShake and handleCollect
allDone == \A i \in Slots : ~(isActivePlayer(i) /\ ~players[i].finished)

\* handleShake without its "millis() - stateStartTime > TIMEOUT_SHAKE" branch
HandleShake_NoTimeout ==
  /\ gameState = STATE_SHAKE
  /\ LET sst == IF stateStartTime = Unset THEN 0 ELSE stateStartTime IN
     IF allDone
     THEN /\ gameState' = STATE_SHOW_RESULTS
          /\ stateStartTime' = Unset
          /\ UNCHANGED players
     ELSE /\ stateStartTime' = sst
          /\ UNCHANGED <<players, gameState>>
  /\ SetChan(updateRetries)
  /\ looped' = TRUE
  /\ UNCHANGED roundsLeft
  /\ UNCHANGED stick
  /\ last' = Step("handleShake")
  /\ UNCHANGED <<joinedCount, slotToStick, stickClaimed, currentRound, deuceVars, joinVars,
                 bagVars, modeVars, instructVars, announceVars, shakeProgress, collectVars,
                 resultsPhase2, ret>>

HandleShake ==
  /\ gameState = STATE_SHAKE
  /\ LET sst == IF stateStartTime = Unset THEN 0 ELSE stateStartTime IN
     IF sst > TIMEOUT_SHAKE
     THEN /\ players' = penalizeUnfinished(players)
          /\ gameState' = STATE_SHOW_RESULTS
          /\ stateStartTime' = Unset
     ELSE IF allDone
     THEN /\ gameState' = STATE_SHOW_RESULTS
          /\ stateStartTime' = Unset
          /\ UNCHANGED players
     ELSE /\ stateStartTime' = sst
          /\ UNCHANGED <<players, gameState>>
  /\ SetChan(updateRetries)
  /\ looped' = TRUE
  /\ UNCHANGED roundsLeft
  /\ UNCHANGED stick
  /\ last' = Step("handleShake")
  /\ UNCHANGED <<joinedCount, slotToStick, stickClaimed, currentRound, deuceVars, joinVars,
                 bagVars, modeVars, instructVars, announceVars, shakeProgress, collectVars,
                 resultsPhase2, ret>>

\* handleCollect that penalises the unfinished players at the first timeout
HandleCollect_NoGrace ==
  /\ gameState = STATE_COLLECT
  /\ LET entry == stateStartTime = Unset
         sst == IF entry THEN 0 ELSE stateStartTime
     IN IF allDone \/ sst > TIMEOUT_REACTION
        THEN /\ players' = penalizeUnfinished(players)
             /\ gameState' = STATE_SHOW_RESULTS
             /\ stateStartTime' = Unset
             /\ collectYellowPhase' = FALSE
             /\ UNCHANGED collectYellowStart
        ELSE /\ stateStartTime' = sst
             /\ collectYellowPhase' = FALSE
             /\ UNCHANGED <<players, gameState, collectYellowStart>>
  /\ SetChan(updateRetries)
  /\ looped' = TRUE
  /\ UNCHANGED roundsLeft
  /\ UNCHANGED stick
  /\ last' = Step("handleCollect")
  /\ UNCHANGED <<joinedCount, slotToStick, stickClaimed, currentRound, deuceVars, joinVars,
                 bagVars, modeVars, instructVars, announceVars, shakeProgress,
                 resultsPhase2, ret>>

HandleCollect ==
  /\ gameState = STATE_COLLECT
  /\ LET entry == stateStartTime = Unset
         sst == IF entry THEN 0 ELSE stateStartTime
         yellow == IF entry THEN FALSE ELSE collectYellowPhase
     IN IF yellow
        THEN IF allDone \/ collectYellowStart > TIMEOUT_REACTION
             THEN /\ players' = penalizeUnfinished(players)
                  /\ gameState' = STATE_SHOW_RESULTS
                  /\ stateStartTime' = Unset
                  /\ collectYellowPhase' = FALSE
                  /\ UNCHANGED collectYellowStart
             ELSE /\ stateStartTime' = sst
                  /\ collectYellowPhase' = yellow
                  /\ UNCHANGED <<players, gameState, collectYellowStart>>
        ELSE IF allDone
        THEN /\ gameState' = STATE_SHOW_RESULTS
             /\ stateStartTime' = Unset
             /\ collectYellowPhase' = yellow
             /\ UNCHANGED <<players, collectYellowStart>>
        ELSE IF sst > TIMEOUT_REACTION
        THEN /\ collectYellowPhase' = TRUE
             /\ collectYellowStart' = 0
             /\ stateStartTime' = sst
             /\ UNCHANGED <<players, gameState>>
        ELSE /\ stateStartTime' = sst
             /\ collectYellowPhase' = yellow
             /\ UNCHANGED <<players, gameState, collectYellowStart>>
  /\ SetChan(updateRetries)
  /\ looped' = TRUE
  /\ UNCHANGED roundsLeft
  /\ UNCHANGED stick
  /\ last' = Step("handleCollect")
  /\ UNCHANGED <<joinedCount, slotToStick, stickClaimed, currentRound, deuceVars, joinVars,
                 bagVars, modeVars, instructVars, announceVars, shakeProgress,
                 resultsPhase2, ret>>

\* ------------------------------------------------------------------------
\* loop(): case STATE_SHOW_RESULTS: handleShowResults()
\* ------------------------------------------------------------------------
\* phase 1: the for loop sending the times of the active players, from index i on
RECURSIVE sendTimesFrom(_, _)
sendTimesFrom(c, i) ==
  IF i >= MAX_PLAYERS THEN c
  ELSE sendTimesFrom(IF isActivePlayer(i)
                       THEN sendToDisplay(c, DISP_TIME_P1 + i, players[i].reactionTime \div 256,
                                          players[i].reactionTime % 256)
                       ELSE c,
                     i + 1)

\* phase 2: the for loop sending the scores of the joined players, from index i on
RECURSIVE sendScoresFrom(_, _, _)
sendScoresFrom(c, P, i) ==
  IF i >= MAX_PLAYERS THEN c
  ELSE sendScoresFrom(IF P[i].joined THEN sendToDisplay(c, DISP_SCORES, i + 1, P[i].score) ELSE c,
                      P, i + 1)

\* the for loop sending CMD_IDLE to the joined players out of the deuce, from index i on
RECURSIVE sendIdleOutOfDeuceFrom(_, _, _, _)
sendIdleOutOfDeuceFrom(c, P, DP, i) ==
  IF i >= MAX_PLAYERS THEN c
  ELSE sendIdleOutOfDeuceFrom(
         IF P[i].joined /\ slotToStick[i] # NONE /\ i # DP[1] /\ i # DP[2]
         THEN sendWithRetry(c, slotToStick[i], CMD_IDLE, 0) ELSE c,
         P, DP, i + 1)

Abs(x) == IF x < 0 THEN -x ELSE x

\* the deuce ended by any lead
deuceWon_AnyLead(diff) == diff >= 1

\* handleShowResults: if (diff >= DEUCE_LEAD)
deuceWon(diff) == diff >= DEUCE_LEAD

\* phase 2 run on every call after the delay
startsPhase2_EveryCall(ph0, sst) == sst > RESULTS_PHASE2_DELAY

\* handleShowResults: if (!resultsPhase2 && elapsed > 3000)
startsPhase2(ph0, sst) == ~ph0 /\ sst > RESULTS_PHASE2_DELAY

HandleShowResults ==
  /\ gameState = STATE_SHOW_RESULTS
  /\ LET entry == stateStartTime = Unset
         sst == IF entry THEN 0 ELSE stateStartTime
         ph0 == IF entry THEN FALSE ELSE resultsPhase2
         c1 == IF entry THEN sendTimesFrom(updateRetries, 0) ELSE updateRetries
         \* phase 2
         doPhase2 == startsPhase2(ph0, sst)
         winner == findRoundWinner
         P2 == IF doPhase2 /\ winner # NONE
               THEN [players EXCEPT ![winner].score = (@ + 1) % 256]
               ELSE players
         c2 == IF doPhase2
               THEN sendScoresFrom(
                      sendToDisplayWithRetry(c1, DISP_ROUND_WINNER, 0,
                                             IF winner # NONE THEN winner + 1 ELSE 0),
                      P2, 0)
               ELSE c1
         \* transition
         leave == sst > RESULTS_TOTAL_DELAY
         diff == Abs(P2[deucePlayer[1]].score - P2[deucePlayer[2]].score)
         cd == checkDeuce(P2, deucePlayer)
         enterDeuce == leave /\ ~inDeuce /\ currentRound >= TOTAL_ROUNDS /\ cd.result
         c3 == IF enterDeuce
               THEN sendIdleOutOfDeuceFrom(
                      sendToDisplayWithRetry(c2, DISP_DEUCE, cd.deucePlayer[1] + 1, cd.deucePlayer[2] + 1),
                      P2, cd.deucePlayer, 0)
               ELSE c2
     IN /\ players' = P2
        /\ SetChan(c3)
        /\ IF leave
           THEN /\ stateStartTime' = Unset
                /\ resultsPhase2' = FALSE
                /\ IF inDeuce
                   THEN /\ gameState' = IF deuceWon(diff) THEN STATE_FINAL_WINNER
                                                              ELSE STATE_COUNTDOWN
                        /\ UNCHANGED deuceVars
                   ELSE IF currentRound >= TOTAL_ROUNDS
                   THEN /\ deucePlayer' = cd.deucePlayer
                        /\ inDeuce' = cd.result
                        /\ gameState' = IF cd.result THEN STATE_COUNTDOWN ELSE STATE_FINAL_WINNER
                   ELSE /\ gameState' = STATE_COUNTDOWN
                        /\ UNCHANGED deuceVars
           ELSE /\ stateStartTime' = sst
                /\ resultsPhase2' = (ph0 \/ doPhase2)
                /\ UNCHANGED <<gameState, deuceVars>>
  /\ looped' = TRUE
  /\ UNCHANGED roundsLeft
  /\ UNCHANGED stick
  /\ last' = Step("handleShowResults")
  /\ UNCHANGED <<joinedCount, slotToStick, stickClaimed, currentRound, joinVars, bagVars,
                 modeVars, instructVars, announceVars, shakeProgress, collectVars, ret>>

\* ------------------------------------------------------------------------
\* loop(): case STATE_FINAL_WINNER: handleFinalWinner()
\* ------------------------------------------------------------------------
\* handleFinalWinner returning to the join phase directly
HandleFinalWinner_ToJoin ==
  /\ gameState = STATE_FINAL_WINNER
  /\ LET entry == stateStartTime = Unset
         sst == IF entry THEN 0 ELSE stateStartTime
         winner == findFinalWinner
     IN /\ SetChan(IF entry
                   THEN sendToDisplayWithRetry(updateRetries, DISP_FINAL_WINNER, 0,
                                               IF winner # NONE THEN winner + 1 ELSE 0)
                   ELSE updateRetries)
        /\ IF sst > DURATION_FINAL
           THEN gameState' = STATE_JOIN /\ stateStartTime' = Unset
           ELSE gameState' = gameState /\ stateStartTime' = sst
  /\ looped' = TRUE
  /\ UNCHANGED roundsLeft
  /\ UNCHANGED stick
  /\ last' = Step("handleFinalWinner")
  /\ UNCHANGED <<regVars, currentRound, deuceVars, joinVars, bagVars, modeVars, instructVars,
                 announceVars, shakeProgress, collectVars, resultsPhase2, ret>>

HandleFinalWinner ==
  /\ gameState = STATE_FINAL_WINNER
  /\ LET entry == stateStartTime = Unset
         sst == IF entry THEN 0 ELSE stateStartTime
         winner == findFinalWinner
     IN /\ SetChan(IF entry
                   THEN sendToDisplayWithRetry(updateRetries, DISP_FINAL_WINNER, 0,
                                               IF winner # NONE THEN winner + 1 ELSE 0)
                   ELSE updateRetries)
        /\ IF sst > DURATION_FINAL
           THEN gameState' = STATE_IDLE /\ stateStartTime' = Unset
           ELSE gameState' = gameState /\ stateStartTime' = sst
  /\ looped' = TRUE
  /\ UNCHANGED roundsLeft
  /\ UNCHANGED stick
  /\ last' = Step("handleFinalWinner")
  /\ UNCHANGED <<regVars, currentRound, deuceVars, joinVars, bagVars, modeVars, instructVars,
                 announceVars, shakeProgress, collectVars, resultsPhase2, ret>>

\* ------------------------------------------------------------------------
\* ESP-NOW receive callback: OnDataRecv, for a valid 7-byte packet from src
\* with command cmd and 16-bit data val
\* ------------------------------------------------------------------------
\* "Find which player slot this joystick is assigned to": first i with slotToStick[i] == src, else -1
RECURSIVE playerSlotFrom(_, _)
playerSlotFrom(src, i) ==
  IF i >= MAX_PLAYERS THEN -1
  ELSE IF slotToStick[i] = src THEN i
  ELSE playerSlotFrom(src, i + 1)

\* the CMD_REQ_ID branch without the check of stickClaimed
OnJoinRequest_NoStickCheck(src) ==
  LET stickIdx == src - ID_STICK1
      slot == currentPromptSlot
  IN IF gameState = STATE_JOIN /\ slotToStick[slot] = NONE
     THEN /\ slotToStick' = [slotToStick EXCEPT ![slot] = src]
          /\ stickClaimed' = [stickClaimed EXCEPT ![stickIdx] = 1]
          /\ players' = [players EXCEPT ![slot].joined = TRUE]
          /\ joinedCount' = (joinedCount + 1) % 256
          /\ SetChan(espnowSend(sendToDisplayWithRetry(chan0, DISP_PLAYER_READY, slot + 1, src),
                                src, CMD_OK, slot + 1))
          /\ promptStartTime' = Unset
          /\ UNCHANGED shakeProgress
     ELSE /\ SetChan(chan0)
          /\ UNCHANGED <<regVars, promptStartTime, shakeProgress>>

\* the CMD_REQ_ID branch answering a refused request with CMD_OK for slot 0
OnJoinRequest_AnswersRefusal(src) ==
  LET stickIdx == src - ID_STICK1
      slot == currentPromptSlot
  IN IF gameState = STATE_JOIN /\ stickClaimed[stickIdx] = 0 /\ slotToStick[slot] = NONE
     THEN /\ slotToStick' = [slotToStick EXCEPT ![slot] = src]
          /\ stickClaimed' = [stickClaimed EXCEPT ![stickIdx] = 1]
          /\ players' = [players EXCEPT ![slot].joined = TRUE]
          /\ joinedCount' = (joinedCount + 1) % 256
          /\ SetChan(espnowSend(sendToDisplayWithRetry(chan0, DISP_PLAYER_READY, slot + 1, src),
                                src, CMD_OK, slot + 1))
          /\ promptStartTime' = Unset
          /\ UNCHANGED shakeProgress
     ELSE /\ SetChan(espnowSend(chan0, src, CMD_OK, 0))
          /\ UNCHANGED <<regVars, promptStartTime, shakeProgress>>

\* the CMD_REQ_ID branch
OnJoinRequest(src) ==
  LET stickIdx == src - ID_STICK1
      slot == currentPromptSlot
  IN IF gameState = STATE_JOIN /\ stickClaimed[stickIdx] = 0 /\ slotToStick[slot] = NONE
     THEN /\ slotToStick' = [slotToStick EXCEPT ![slot] = src]
          /\ stickClaimed' = [stickClaimed EXCEPT ![stickIdx] = 1]
          /\ players' = [players EXCEPT ![slot].joined = TRUE]
          /\ joinedCount' = (joinedCount + 1) % 256
          /\ SetChan(espnowSend(sendToDisplayWithRetry(chan0, DISP_PLAYER_READY, slot + 1, src),
                                src, CMD_OK, slot + 1))
          /\ promptStartTime' = Unset
          /\ UNCHANGED shakeProgress
     ELSE /\ SetChan(chan0)
          /\ UNCHANGED <<regVars, promptStartTime, shakeProgress>>

\* a later result replaces the one recorded
OnStickReport_Overwrites(src, cmd, val) ==
  LET playerSlot == playerSlotFrom(src, 0) IN
  /\ SetChan(chan0)
  /\ UNCHANGED <<joinedCount, slotToStick, stickClaimed, promptStartTime>>
  /\ IF playerSlot < 0
     THEN UNCHANGED <<players, shakeProgress>>
     ELSE IF cmd = CMD_SHAKE_PROGRESS
     THEN /\ shakeProgress' = IF gameState = STATE_SHAKE
                              THEN [shakeProgress EXCEPT ![playerSlot] = val \div 256]
                              ELSE shakeProgress
          /\ UNCHANGED players
     ELSE IF cmd = CMD_REACTION_DONE \/ cmd = CMD_SHAKE_DONE
     THEN /\ players' = IF gameState # STATE_COLLECT /\ gameState # STATE_SHAKE
                        THEN players
                        ELSE [players EXCEPT ![playerSlot].reactionTime = val,
                                             ![playerSlot].finished = TRUE]
          /\ UNCHANGED shakeProgress
     ELSE UNCHANGED <<players, shakeProgress>>

\* the CMD_SHAKE_PROGRESS and CMD_REACTION_DONE / CMD_SHAKE_DONE branches
OnStickReport(src, cmd, val) ==
  LET playerSlot == playerSlotFrom(src, 0) IN
  /\ SetChan(chan0)
  /\ UNCHANGED <<joinedCount, slotToStick, stickClaimed, promptStartTime>>
  /\ IF playerSlot < 0
     THEN UNCHANGED <<players, shakeProgress>>
     ELSE IF cmd = CMD_SHAKE_PROGRESS
     THEN /\ shakeProgress' = IF gameState = STATE_SHAKE
                              THEN [shakeProgress EXCEPT ![playerSlot] = val \div 256]
                              ELSE shakeProgress
          /\ UNCHANGED players
     ELSE IF cmd = CMD_REACTION_DONE \/ cmd = CMD_SHAKE_DONE
     THEN /\ players' = IF (gameState # STATE_COLLECT /\ gameState # STATE_SHAKE)
                           \/ players[playerSlot].finished
                        THEN players
                        ELSE [players EXCEPT ![playerSlot].reactionTime = val,
                                             ![playerSlot].finished = TRUE]
          /\ UNCHANGED shakeProgress
     ELSE UNCHANGED <<players, shakeProgress>>

OnDataRecv(src, cmd, val) ==
  /\ IF cmd = CMD_ACK
     THEN /\ SetChan(handleAck(chan0, src, val % 256))
          /\ UNCHANGED <<regVars, promptStartTime, shakeProgress>>
     ELSE IF src < ID_STICK1 \/ src > ID_STICK4
     THEN /\ SetChan(chan0)
          /\ UNCHANGED <<regVars, promptStartTime, shakeProgress>>
     ELSE IF cmd = CMD_REQ_ID
     THEN OnJoinRequest(src)
     ELSE OnStickReport(src, cmd, val)
  /\ last' = [op |-> "OnDataRecv", src |-> src, cmd |-> cmd,
              data |-> IF cmd = CMD_ACK THEN val % 256 ELSE 0, found |-> FALSE]
  /\ UNCHANGED <<gameState, stateStartTime, currentRound, deuceVars, currentPromptSlot,
                 joinComplete, joinCompleteTime, bagVars, modeVars, instructVars, announceVars,
                 collectVars, resultsPhase2, ret, looped, roundsLeft>>

\* the callback runs for a packet that does not come from the modelled joystick
RecvPacket(src, cmd, val) == OnDataRecv(src, cmd, val) /\ UNCHANGED stick

\* ------------------------------------------------------------------------
\* The packets the radio can deliver to the host
\* ------------------------------------------------------------------------
\* sources of acknowledgements: the sticks, the display, and the host's own
\* address as a source that is neither
AckSources == Sticks \cup {ID_DISPLAY, ID_HOST}
\* sources of the other commands: the sticks
Sources == Sticks
\* acknowledged commands: the command recorded for the source, or one of two fixed ones
AckedCmds(src) ==
  (IF ackSlotFor(src) >= 0 THEN {pendingAcks[ackSlotFor(src)].cmd} ELSE {})
    \cup {DISP_PLAYER_PROMPT, CMD_GO}
\* result times a stick can report: two valid times and the penalty
ResultVals == {180, 250, TIME_PENALTY}
\* shake progress report: count 5 of target 10
ProgressVals == {5 * 256 + 10}

RecvAck == \E src \in AckSources : \E a \in AckedCmds(src) : RecvPacket(src, CMD_ACK, a)
RecvJoinRequest == \E src \in Sources : RecvPacket(src, CMD_REQ_ID, 0)
RecvReactionDone == \E src \in Sources, v \in ResultVals : RecvPacket(src, CMD_REACTION_DONE, v)
RecvShakeDone == \E src \in Sources, v \in ResultVals : RecvPacket(src, CMD_SHAKE_DONE, v)
RecvShakeProgress == \E src \in Sources, v \in ProgressVals : RecvPacket(src, CMD_SHAKE_PROGRESS, v)

Handle ==
  \/ HandleIdle
  \/ HandleJoin
  \/ HandleCountdown
  \/ HandleReaction
  \/ HandleShake
  \/ HandleCollect
  \/ HandleShowResults
  \/ HandleFinalWinner

\* ------------------------------------------------------------------------
\* SpecJoin: from power-up through the join phase; the behaviour ends when
\* the first round is about to start.
\* ------------------------------------------------------------------------
NextJoin ==
  \/ Tick(Quantum)
  \/ HandleIdle
  \/ HandleJoin
  \/ RecvAck
  \/ RecvJoinRequest
  \/ RecvReactionDone

SpecJoin == Init /\ [][NextJoin]_vars

\* the packets of outbox' for ack slot s
SentFor(s) == SelectSeq(outbox', LAMBDA p : ackSlotFor(p[1]) = s)
\* the step calls sendWithRetry for ack slot s
SendsAnew(s) == \E k \in 1 .. Len(outbox') : outbox'[k][4] = "first" /\ ackSlotFor(outbox'[k][1]) = s

\* the step is OnDataRecv for a CMD_REQ_ID packet of a stick
IsJoinRequest == last'.op = "OnDataRecv" /\ last'.cmd = CMD_REQ_ID
\* the slots stick id owns
SlotsOf(id) == {i \in Slots : slotToStick[i] = id}

\* C1: during STATE_JOIN a request succeeds exactly when its stick has not
\* claimed yet and the prompted slot is free, and then the stick gets that
\* slot and nothing else changes hands: of several requests for one prompted
\* slot only the first such succeeds, a stick succeeds at most once; every
\* slot has at most one owner and every stick at most one slot.
C1_Step ==
  /\ (IsJoinRequest /\ gameState = STATE_JOIN) =>
       LET idx == last'.src - ID_STICK1
           free == stickClaimed[idx] = 0 /\ slotToStick[currentPromptSlot] = NONE
       IN /\ free => slotToStick' = [slotToStick EXCEPT ![currentPromptSlot] = last'.src]
          /\ free => stickClaimed' = [stickClaimed EXCEPT ![idx] = 1]
          /\ ~free => UNCHANGED <<slotToStick, stickClaimed>>
  /\ gameState = STATE_JOIN =>
       \A i \in Slots : slotToStick[i] # NONE => slotToStick'[i] = slotToStick[i]
C1_Owners ==
  /\ \A i \in Slots : slotToStick[i] \in Sticks \cup {NONE}
  /\ \A id \in Sticks : /\ Cardinality(SlotsOf(id)) <= 1
                         /\ stickClaimed[id - ID_STICK1] = Cardinality(SlotsOf(id))
C1_ClaimExclusion == [][C1_Step]_vars /\ []C1_Owners
C1_Witness ==
  /\ gameState = STATE_JOIN
  /\ last.op = "OnDataRecv" /\ last.cmd = CMD_REQ_ID /\ last.src = ID_STICK1 + 1
  /\ promptStartTime = Unset
  /\ slotToStick[currentPromptSlot] = ID_STICK1
  /\ stickClaimed[1] = 0

\* C9: a join request from a stick that owns a slot, or while the prompted
\* slot is owned, or in a state other than STATE_JOIN, changes none of
\* slotToStick, stickClaimed, players, joinedCount, the prompt timer and the
\* pending commands, and no packet is sent.
C9_Step ==
  (/\ IsJoinRequest
   /\ \/ stickClaimed[last'.src - ID_STICK1] # 0
      \/ slotToStick[currentPromptSlot] # NONE
      \/ gameState # STATE_JOIN)
  => /\ UNCHANGED <<slotToStick, stickClaimed, players, joinedCount, promptStartTime,
                    currentPromptSlot, pendingAcks>>
     /\ outbox' = <<>>
C9_RejectedRequest == [][C9_Step]_vars
C9_Witness ==
  /\ gameState = STATE_JOIN
  /\ last.op = "OnDataRecv" /\ last.cmd = CMD_REQ_ID /\ last.src = ID_STICK1
  /\ stickClaimed[0] = 1
  /\ slotToStick[currentPromptSlot] = NONE
  /\ joinedCount = 1

\* C6: a command handed to sendWithRetry stays pending until its ACK arrives
\* or it has been transmitted 1 + ACK_MAX_RETRIES times: whenever it stops
\* being the pending command of its slot without an ACK, it has been
\* transmitted that often.
C6_Step(s) ==
  (fate[s] = "pending" /\ (SendsAnew(s) \/ fate'[s] # "pending"))
    => \/ fate'[s] = "acked"
       \/ txCount[s] = 1 + ACK_MAX_RETRIES
C6_BoundedRetry == [][\A s \in AckSlots : C6_Step(s)]_vars

\* the players marked joined
JoinedSlots == {i \in Slots : players[i].joined}

\* C11: handleJoin leaves STATE_JOIN for STATE_COUNTDOWN only when at least
\* two players have joined; when every slot has had its prompt window and
\* fewer than two have joined, it stays in STATE_JOIN and starts the prompt
\* windows again from slot 0; STATE_COUNTDOWN is never entered with fewer than
\* two joined players.
C11_Step ==
  /\ (gameState = STATE_JOIN /\ gameState' # STATE_JOIN) =>
        /\ gameState' = STATE_COUNTDOWN
        /\ last'.op = "handleJoin"
        /\ joinedCount >= 2
        /\ Cardinality(JoinedSlots) >= 2
        /\ UNCHANGED regVars
  /\ (/\ last'.op = "handleJoin"
      /\ stateStartTime # Unset
      /\ ~joinComplete
      /\ promptStartTime = Unset \/ promptStartTime > PROMPT_DURATION
      /\ \A i \in Slots : i > currentPromptSlot => slotToStick[i] # NONE
      /\ Cardinality(JoinedSlots) < 2)
     => /\ gameState' = STATE_JOIN
        /\ ~joinComplete'
        /\ currentPromptSlot' = 0
        /\ promptStartTime' = 0
        /\ \E k \in 1 .. Len(outbox') :
              outbox'[k] = Pkt(ID_DISPLAY, DISP_PLAYER_PROMPT, 1, "first")
C11_Joined ==
  /\ joinedCount = Cardinality(JoinedSlots)
  /\ (gameState = STATE_COUNTDOWN \/ joinComplete) => joinedCount >= 2
C11_JoinNeedsTwo == [][C11_Step]_vars /\ []C11_Joined
\* the prompts have been restarted with one player joined, in slot 1
C11_Witness ==
  /\ gameState = STATE_JOIN
  /\ last.op = "handleJoin"
  /\ joinedCount = 1
  /\ slotToStick[1] # NONE
  /\ currentPromptSlot = 0
  /\ promptStartTime = 0
  /\ pendingAcks[4].waiting /\ pendingAcks[4].cmd = DISP_PLAYER_PROMPT /\ pendingAcks[4].data = 1

\* ------------------------------------------------------------------------
\* SpecMatch: the rounds of a match and what follows it.  A behaviour starts
\* at the entry of STATE_COUNTDOWN, either for the first round (handleJoin
\* has just left STATE_JOIN) or for the last regular round with the two
\* leading players level.  Sticks 1 .. NumSticks hold slots
\* 0 .. NumSticks - 1; every command sent so far has been given up.  A
\* behaviour starts at most MaxRounds rounds.
\* ------------------------------------------------------------------------
GivenUp(dest, cmd, data) ==
  [waiting |-> FALSE, dest |-> dest, cmd |-> cmd, data |-> data, retries |-> 0, lastSend |-> 0]

\* what both starting points share: the registry after the join phase
InitJoined ==
  /\ stick = StickBoot
  /\ gameState = STATE_COUNTDOWN
  /\ stateStartTime = Unset
  /\ joinedCount = NumSticks
  /\ inDeuce = FALSE
  /\ deucePlayer = <<NONE, NONE>>
  /\ slotToStick = [i \in Slots |-> IF i < NumSticks THEN ID_STICK1 + i ELSE NONE]
  /\ stickClaimed = [i \in Slots |-> IF i < NumSticks THEN 1 ELSE 0]
  /\ currentPromptSlot = MAX_PLAYERS - 1
  /\ promptStartTime = 0
  /\ joinComplete = TRUE
  /\ delayIdx = 0
  /\ targetIdx = 0
  /\ modeBag = <<MODE_REACTION, MODE_SHAKE>>
  /\ modeBagIdx = 2
  /\ reactionFirstInstruct = FALSE
  /\ shakeProgress = [i \in Slots |-> 0]
  /\ shakeFirstInstruct = FALSE
  /\ collectYellowPhase = FALSE
  /\ collectYellowStart = 0
  /\ resultsPhase2 = FALSE
  /\ outbox = <<>>
  /\ ret = NoCall
  /\ looped = TRUE
  /\ roundsLeft = MaxRounds

\* handleJoin has just moved to STATE_COUNTDOWN
InitFirstRound ==
  /\ InitJoined
  /\ players = [i \in Slots |-> [joined |-> i < NumSticks, finished |-> FALSE,
                                  reactionTime |-> 65535, score |-> 0]]
  /\ currentRound = 0
  /\ joinCompleteTime = JOIN_COMPLETE_DELAY + 1
  /\ gameMode = MODE_REACTION
  /\ lastDelayIdx = NONE
  /\ lastTargetIdx = NONE
  /\ reactionInstructPlayed = FALSE
  /\ shakeInstructPlayed = FALSE
  /\ reactionAnnouncementDone = FALSE
  /\ countdownNum = 3
  /\ shakeAnnouncementDone = FALSE
  /\ pendingAcks = [i \in AckSlots |->
                      IF i = 4 THEN GivenUp(ID_DISPLAY, DISP_PLAYER_PROMPT, MAX_PLAYERS)
                      ELSE PendingInit]
  /\ txCount = [i \in AckSlots |-> IF i = 4 THEN 1 + ACK_MAX_RETRIES ELSE 0]
  /\ fate = [i \in AckSlots |-> IF i = 4 THEN "abandoned" ELSE "none"]
  /\ last = Step("handleJoin")

\* handleShowResults has just left round TOTAL_ROUNDS - 1, a shake round that
\* slot 0 won with 180 against 250, slots 0 and 1 level at two points each
InitLastRound ==
  /\ InitJoined
  /\ players = [i \in Slots |->
                  [joined |-> i < NumSticks, finished |-> i < NumSticks,
                   reactionTime |-> IF i = 0 THEN 180 ELSE IF i < NumSticks THEN 250 ELSE 65535,
                   score |-> IF i < 2 THEN 2 ELSE 0]]
  /\ currentRound = TOTAL_ROUNDS - 1
  /\ joinCompleteTime = 0
  /\ gameMode = MODE_SHAKE
  /\ lastDelayIdx = 0
  /\ lastTargetIdx = 0
  /\ reactionInstructPlayed = TRUE
  /\ shakeInstructPlayed = TRUE
  /\ reactionAnnouncementDone = TRUE
  /\ countdownNum = 0
  /\ shakeAnnouncementDone = TRUE
  /\ pendingAcks = [i \in AckSlots |->
                      IF i = 4 THEN GivenUp(ID_DISPLAY, DISP_ROUND_WINNER, 1)
                      ELSE IF i < NumSticks THEN GivenUp(ID_STICK1 + i, CMD_GO, 0)
                      ELSE PendingInit]
  /\ txCount = [i \in AckSlots |-> IF i = 4 \/ i < NumSticks THEN 1 + ACK_MAX_RETRIES ELSE 0]
  /\ fate = [i \in AckSlots |-> IF i = 4 \/ i < NumSticks THEN "abandoned" ELSE "none"]
  /\ last = Step("handleShowResults")

InitMatch == InitFirstRound \/ InitLastRound

\* a stick reports its result with the command of the running mode
RecvResult ==
  \E src \in Sources, v \in ResultVals :
    RecvPacket(src, IF gameMode = MODE_SHAKE THEN CMD_SHAKE_DONE ELSE CMD_REACTION_DONE, v)

NextMatch ==
  \/ Tick(Quantum)
  \/ HandleIdle
  \/ HandleJoin
  \/ HandleCountdown
  \/ HandleReaction
  \/ HandleShake
  \/ HandleCollect
  \/ HandleShowResults
  \/ HandleFinalWinner
  \/ RecvJoinRequest
  \/ RecvResult

SpecMatch == InitMatch /\ [][NextMatch]_vars

\* C10: gameState changes only along the edges of the state machine, never
\* in the receive callback, and STATE_COLLECT is entered only in a reaction
\* round.
C10_Edges ==
  {<<STATE_IDLE, STATE_JOIN>>, <<STATE_JOIN, STATE_COUNTDOWN>>,
   <<STATE_COUNTDOWN, STATE_REACTION>>, <<STATE_COUNTDOWN, STATE_SHAKE>>,
   <<STATE_REACTION, STATE_COLLECT>>, <<STATE_COLLECT, STATE_SHOW_RESULTS>>,
   <<STATE_SHAKE, STATE_SHOW_RESULTS>>, <<STATE_SHOW_RESULTS, STATE_COUNTDOWN>>,
   <<STATE_SHOW_RESULTS, STATE_FINAL_WINNER>>, <<STATE_FINAL_WINNER, STATE_IDLE>>}
C10_Step ==
  /\ gameState' # gameState =>
       /\ <<gameState, gameState'>> \in C10_Edges
       /\ last'.op # "OnDataRecv"
       /\ gameState' = STATE_COLLECT => gameMode = MODE_REACTION /\ gameMode' = MODE_REACTION
  /\ last'.op = "OnDataRecv" => gameState' = gameState
C10_StateMachine == [][C10_Step]_vars
C10_Witness ==
  /\ gameState = STATE_COUNTDOWN /\ last.op = "handleJoin"
  /\ currentRound = 0 /\ roundsLeft < MaxRounds

\* ------------------------------------------------------------------------
\* FairRound: the first round of a match, with loop() iterating for ever and
\* the clock advancing.
\* ------------------------------------------------------------------------
HandleRound ==
  \/ HandleCountdown
  \/ HandleReaction
  \/ HandleShake
  \/ HandleCollect
  \/ HandleShowResults

\* a stick reports a valid time with the command of the running mode
RecvRoundResult ==
  \E src \in Sources :
    RecvPacket(src, IF gameMode = MODE_SHAKE THEN CMD_SHAKE_DONE ELSE CMD_REACTION_DONE, 250)

NextRound == Tick(Quantum) \/ HandleRound \/ RecvRoundResult

FairRound ==
  /\ InitFirstRound /\ [][NextRound]_vars
  /\ WF_vars(Tick(Quantum)) /\ WF_vars(HandleRound)

\* C3: a round that has started reaches STATE_SHOW_RESULTS, whatever the
\* sticks report or fail to report; handleShake leaves STATE_SHAKE once
\* TIMEOUT_SHAKE has elapsed, handleCollect leaves STATE_COLLECT once
\* TIMEOUT_REACTION and then the warning phase of another TIMEOUT_REACTION
\* have elapsed.
C3_RoundStarted ==
  \/ gameState \in {STATE_REACTION, STATE_SHAKE, STATE_COLLECT}
  \/ gameState = STATE_COUNTDOWN /\ (stateStartTime # Unset \/ roundsLeft > 0)
C3_Step ==
  /\ (last'.op = "handleShake" /\ stateStartTime # Unset /\ stateStartTime > TIMEOUT_SHAKE)
       => gameState' = STATE_SHOW_RESULTS
  /\ (last'.op = "handleCollect" /\ stateStartTime # Unset /\ collectYellowPhase
        /\ collectYellowStart > TIMEOUT_REACTION)
       => gameState' = STATE_SHOW_RESULTS
  /\ (last'.op = "handleCollect" /\ stateStartTime # Unset /\ ~collectYellowPhase
        /\ stateStartTime > TIMEOUT_REACTION)
       => (gameState' = STATE_SHOW_RESULTS \/ collectYellowPhase')
C3_RoundEnds ==
  /\ C3_RoundStarted ~> (gameState = STATE_SHOW_RESULTS)
  /\ [][C3_Step]_vars
C3_Witness ==
  /\ gameState = STATE_SHOW_RESULTS /\ last.op = "handleCollect"
  /\ \A i \in Slots : players[i].joined =>
        players[i].finished /\ players[i].reactionTime = TIME_PENALTY

\* the first round of a match, loop() and the clock free to stall
SpecRound == InitFirstRound /\ [][NextRound]_vars

\* the active players that have not finished
Unfinished == {i \in Slots : isActivePlayer(i) /\ ~players[i].finished}

\* C18: in STATE_COLLECT, when TIMEOUT_REACTION expires with unfinished
\* active players, nobody is penalised yet and a grace window of the same
\* duration starts; a result received from an unfinished active player
\* during the window is recorded with the reported time; handleCollect gives
\* TIME_PENALTY only when the window has expired, and then to exactly the
\* players still unfinished.
C18_Step ==
  /\ (/\ last'.op = "handleCollect"
      /\ gameState = STATE_COLLECT /\ stateStartTime # Unset /\ ~collectYellowPhase
      /\ Unfinished # {}
      /\ stateStartTime > TIMEOUT_REACTION)
     => /\ players' = players
        /\ gameState' = STATE_COLLECT
        /\ collectYellowPhase' /\ collectYellowStart' = 0
  /\ (/\ last'.op = "OnDataRecv" /\ last'.cmd = CMD_REACTION_DONE
      /\ gameState = STATE_COLLECT /\ collectYellowPhase
      /\ \E i \in Unfinished : slotToStick[i] = last'.src)
     => \E i \in Unfinished :
          /\ slotToStick[i] = last'.src
          /\ players' = [players EXCEPT ![i].finished = TRUE, ![i].reactionTime = 250]
          /\ gameState' = STATE_COLLECT
  /\ (last'.op = "handleCollect" /\ gameState = STATE_COLLECT /\ players' # players)
     => /\ collectYellowPhase /\ stateStartTime # Unset
        /\ collectYellowStart > TIMEOUT_REACTION
        /\ players' = [i \in Slots |->
                         IF i \in Unfinished
                         THEN [players[i] EXCEPT !.finished = TRUE, !.reactionTime = TIME_PENALTY]
                         ELSE players[i]]
        /\ gameState' = STATE_SHOW_RESULTS
  /\ (/\ last'.op = "handleCollect"
      /\ gameState = STATE_COLLECT /\ stateStartTime # Unset /\ collectYellowPhase
      /\ Unfinished # {}
      /\ collectYellowStart <= TIMEOUT_REACTION)
     => /\ players' = players
        /\ gameState' = STATE_COLLECT
C18_GraceWindow == [][C18_Step]_vars
\* a late result recorded during the window, the other player still unfinished
C18_Witness ==
  /\ gameState = STATE_COLLECT
  /\ collectYellowPhase /\ collectYellowStart = Quantum
  /\ last.op = "OnDataRecv" /\ last.src = ID_STICK1 + 1
  /\ players[1].finished /\ players[1].reactionTime = 250
  /\ Unfinished = {0}
\* the window has expired: the late result stands, the other player is penalised
C18_WitnessExpired ==
  /\ gameState = STATE_SHOW_RESULTS
  /\ last.op = "handleCollect"
  /\ players[1].reactionTime = 250
  /\ players[0].finished /\ players[0].reactionTime = TIME_PENALTY

\* ------------------------------------------------------------------------
\* SpecChan: the ACK + retry layer by itself.  From power-up, sendWithRetry
\* is called for a stick or the display with either of two commands, updateRetries
\* runs as loop() calls it, ACKs arrive from any source, and time passes
\* FineQuantum at a time.
\* ------------------------------------------------------------------------
\* destinations: a stick and the display
ChanDests == {ID_STICK1, ID_DISPLAY}
\* sources of ACKs: the destinations, and the host's own address, which has no slot
ChanAckSources == ChanDests \cup {ID_HOST}
\* <<cmd, data>> of the commands sent
ChanCmds == {<<CMD_GO, 0>>, <<DISP_PLAYER_PROMPT, 1>>}

\* sendWithRetry(destId, cmd, data)
CallSendWithRetry ==
  /\ \E d \in ChanDests, m \in ChanCmds :
       /\ SetChan(sendWithRetry(chan0, d, m[1], m[2]))
       /\ last' = [op |-> "sendWithRetry", src |-> d, cmd |-> m[1], data |-> m[2],
                   found |-> ackSlotFor(d) >= 0 /\ pendingAcks[ackSlotFor(d)].waiting]
  /\ UNCHANGED <<hostVars, ret, looped, roundsLeft, stick>>

\* updateRetries(), as the first statement of an iteration of loop()
CallUpdateRetries ==
  /\ SetChan(updateRetries)
  /\ looped' = TRUE
  /\ UNCHANGED stick
  /\ last' = Step("updateRetries")
  /\ UNCHANGED <<hostVars, ret, roundsLeft>>

\* an ACK for either command from a stick, the display or a source that is neither
RecvAckChan == \E src \in ChanAckSources, m \in ChanCmds : RecvPacket(src, CMD_ACK, m[1])

NextChan ==
  \/ Tick(FineQuantum)
  \/ CallSendWithRetry
  \/ CallUpdateRetries
  \/ RecvAckChan

SpecChan == Init /\ [][NextChan]_vars

\* loop() keeps running and the clock keeps advancing
FairChan == SpecChan /\ WF_vars(Tick(FineQuantum)) /\ WF_vars(CallUpdateRetries)

\* C2: a command that is neither acknowledged nor replaced is transmitted
\* 1 + ACK_MAX_RETRIES times, each retransmission at least ACK_RETRY_INTERVAL
\* after the transmission before it; then its slot is cleared once, and it is
\* not transmitted again.
C2_Step(s) ==
  /\ (fate[s] = "pending" /\ ~SendsAnew(s) /\ fate'[s] # "acked") =>
       /\ txCount'[s] \in {txCount[s], txCount[s] + 1}
       /\ txCount'[s] <= 1 + ACK_MAX_RETRIES
       /\ txCount'[s] = txCount[s] => SentFor(s) = <<>>
       /\ txCount'[s] = txCount[s] + 1 =>
            /\ pendingAcks[s].lastSend >= ACK_RETRY_INTERVAL
            /\ SentFor(s) = <<Pkt(pendingAcks[s].dest, pendingAcks[s].cmd, pendingAcks[s].data, "retry")>>
            /\ fate'[s] = "pending"
       /\ fate'[s] \in {"pending", "abandoned"}
       /\ fate'[s] = "pending" => pendingAcks'[s].waiting
       /\ fate'[s] = "abandoned" =>
            /\ txCount[s] = 1 + ACK_MAX_RETRIES
            /\ txCount'[s] = txCount[s]
            /\ pendingAcks[s].waiting /\ ~pendingAcks'[s].waiting
  /\ (fate[s] = "abandoned" /\ ~SendsAnew(s)) =>
       /\ fate'[s] = "abandoned"
       /\ txCount'[s] = txCount[s]
       /\ SentFor(s) = <<>>
       /\ ~pendingAcks[s].waiting /\ ~pendingAcks'[s].waiting
C2_Unsettled(s) ==
  fate[s] = "pending" /\ ~(last.op = "sendWithRetry" /\ ackSlotFor(last.src) = s)
C2_Settled(s) ==
  \/ fate[s] = "acked"
  \/ fate[s] = "abandoned" /\ txCount[s] = 1 + ACK_MAX_RETRIES
  \/ last.op = "sendWithRetry" /\ ackSlotFor(last.src) = s
C2_RetryExhaustion ==
  /\ [][\A s \in AckSlots : C2_Step(s)]_vars
  /\ \A d \in ChanDests : C2_Unsettled(ackSlotFor(d)) ~> C2_Settled(ackSlotFor(d))
C2_Witness ==
  /\ last.op = "updateRetries"
  /\ fate[4] = "abandoned" /\ txCount[4] = 1 + ACK_MAX_RETRIES
  /\ pendingAcks[4].retries = 0 /\ ~pendingAcks[4].waiting

\* C7: sendWithRetry to a destination with a command still pending replaces
\* the record (command, data, retries = ACK_MAX_RETRIES, lastSend = now) and
\* transmits the new command at once; the slots of the other destinations
\* are unchanged; no two waiting records are for one destination.
C7_Call ==
  last'.op = "sendWithRetry" =>
    LET s == ackSlotFor(last'.src) IN
    IF s < 0 THEN pendingAcks' = pendingAcks /\ outbox' = <<>>
    ELSE /\ pendingAcks' = [pendingAcks EXCEPT ![s] =
                              [waiting |-> TRUE, dest |-> last'.src, cmd |-> last'.cmd,
                               data |-> last'.data, retries |-> ACK_MAX_RETRIES, lastSend |-> 0]]
         /\ Len(outbox') = 1
         /\ outbox'[1][1] = last'.src /\ outbox'[1][2] = last'.cmd /\ outbox'[1][3] = last'.data
C7_OnePerDest ==
  \A s, t \in AckSlots :
    (pendingAcks[s].waiting /\ pendingAcks[t].waiting /\ pendingAcks[s].dest = pendingAcks[t].dest)
      => s = t
C7_Replace == [][C7_Call]_vars /\ []C7_OnePerDest
C7_Witness ==
  /\ last.op = "sendWithRetry" /\ last.found /\ last.src = ID_DISPLAY
  /\ pendingAcks[4].waiting /\ pendingAcks[4].cmd = last.cmd /\ pendingAcks[4].retries = ACK_MAX_RETRIES
  /\ txCount[4] = 1
  /\ pendingAcks[0].waiting /\ pendingAcks[0].retries < ACK_MAX_RETRIES

\* C8: handleAck clears the slot of the source exactly when that slot is
\* waiting for the acknowledged command; any other ACK (another command,
\* nothing pending, a source that is neither a stick nor the display) changes
\* no slot; no ACK changes the game state or sends a packet.
C8_Hit ==
  /\ ackSlotFor(last'.src) >= 0
  /\ pendingAcks[ackSlotFor(last'.src)].waiting
  /\ pendingAcks[ackSlotFor(last'.src)].cmd = last'.data
C8_Step ==
  (last'.op = "OnDataRecv" /\ last'.cmd = CMD_ACK) =>
    /\ UNCHANGED hostVars
    /\ outbox' = <<>>
    /\ pendingAcks' = IF C8_Hit
                      THEN [pendingAcks EXCEPT ![ackSlotFor(last'.src)].waiting = FALSE]
                      ELSE pendingAcks
C8_HandleAck == [][C8_Step]_vars
C8_Witness ==
  /\ last.op = "OnDataRecv" /\ last.cmd = CMD_ACK /\ last.src = ID_DISPLAY
  /\ fate[4] = "acked" /\ ~pendingAcks[4].waiting /\ pendingAcks[4].cmd = last.data
  /\ pendingAcks[0].waiting

\* ------------------------------------------------------------------------
\* SpecFn: findRoundWinner and isActivePlayer applied in the middle of a
\* round.  A behaviour starts in STATE_COLLECT with any two to four slots
\* joined (slot i by stick i + 1), in a regular round or in a deuce of two of
\* them, each joined player with no result yet, a valid time or the penalty.
\* ------------------------------------------------------------------------
\* what a joined player can hold during a round: <<finished, reactionTime>>
RoundEntries == {<<FALSE, 65535>>, <<TRUE, 180>>, <<TRUE, 250>>, <<TRUE, TIME_PENALTY>>}

\* the deuces two of the joined slots J can be in, and <<NONE, NONE>> for none
DeucePairs(J) == {<<NONE, NONE>>} \cup {d \in J \X J : d[1] < d[2]}

InitFn ==
  /\ gameState = STATE_COLLECT
  /\ stateStartTime = Quantum
  /\ \E J \in SUBSET Slots : \E dp \in DeucePairs(J) : \E e \in [J -> RoundEntries] :
       LET active(i) == i \in J /\ (dp[1] = NONE \/ i = dp[1] \/ i = dp[2]) IN
       /\ Cardinality(J) >= 2
       /\ slotToStick = [i \in Slots |-> IF i \in J THEN ID_STICK1 + i ELSE NONE]
       /\ stickClaimed = [i \in Slots |-> IF i \in J THEN 1 ELSE 0]
       /\ joinedCount = Cardinality(J)
       /\ deucePlayer = dp
       /\ players = [i \in Slots |->
                       IF i \in J
                       THEN [joined |-> TRUE, finished |-> e[i][1], reactionTime |-> e[i][2],
                             score |-> IF i = dp[1] \/ i = dp[2] THEN 2 ELSE 0]
                       ELSE resetPlayersRec]
       /\ pendingAcks = [i \in AckSlots |->
                           IF i = 4 THEN GivenUp(ID_DISPLAY, DISP_GO, 0)
                           ELSE IF active(i) THEN GivenUp(ID_STICK1 + i, CMD_GO, 0)
                           ELSE IF i \in J THEN GivenUp(ID_STICK1 + i, CMD_IDLE, 0)
                           ELSE PendingInit]
       /\ txCount = [i \in AckSlots |-> IF i = 4 \/ i \in J THEN 1 + ACK_MAX_RETRIES ELSE 0]
       /\ fate = [i \in AckSlots |-> IF i = 4 \/ i \in J THEN "abandoned" ELSE "none"]
  /\ inDeuce = (deucePlayer[1] # NONE)
  /\ currentRound = IF inDeuce THEN TOTAL_ROUNDS + 1 ELSE 1
  /\ currentPromptSlot = MAX_PLAYERS - 1
  /\ promptStartTime = 0
  /\ joinComplete = TRUE
  /\ joinCompleteTime = 0
  /\ gameMode = MODE_REACTION
  /\ delayIdx = 0
  /\ targetIdx = 0
  /\ lastDelayIdx = 0
  /\ lastTargetIdx = IF inDeuce THEN 0 ELSE NONE
  /\ modeBag = IF inDeuce THEN <<MODE_SHAKE, MODE_REACTION>> ELSE <<MODE_REACTION, MODE_SHAKE>>
  /\ modeBagIdx = IF inDeuce THEN 2 ELSE 1
  /\ reactionInstructPlayed = TRUE
  /\ shakeInstructPlayed = inDeuce
  /\ reactionAnnouncementDone = TRUE
  /\ reactionFirstInstruct = ~inDeuce
  /\ shakeProgress = [i \in Slots |-> 0]
  /\ countdownNum = IF inDeuce THEN 0 ELSE 3
  /\ shakeAnnouncementDone = inDeuce
  /\ shakeFirstInstruct = FALSE
  /\ collectYellowPhase = FALSE
  /\ collectYellowStart = 0
  /\ resultsPhase2 = FALSE
  /\ outbox = <<>>
  /\ stick = StickBoot
  /\ last = Step("handleCollect")
  /\ ret = NoCall
  /\ looped = TRUE
  /\ roundsLeft = 0

\* findRoundWinner() applied to the state as it is
CallFindRoundWinner ==
  /\ ret' = [f |-> "findRoundWinner", arg |-> 0, val |-> findRoundWinner]
  /\ UNCHANGED stick
  /\ last' = Step("findRoundWinner")
  /\ UNCHANGED <<hostVars, chanVars, outbox, looped, roundsLeft>>

\* isActivePlayer(i) applied to the state as it is
CallIsActivePlayer ==
  /\ \E i \in Slots : ret' = [f |-> "isActivePlayer", arg |-> i, val |-> isActivePlayer(i)]
  /\ UNCHANGED stick
  /\ last' = Step("isActivePlayer")
  /\ UNCHANGED <<hostVars, chanVars, outbox, looped, roundsLeft>>

NextFn == CallFindRoundWinner \/ CallIsActivePlayer

SpecFn == InitFn /\ [][NextFn]_vars

\* C4: findRoundWinner returns the active, finished player with the lowest
\* time strictly below 0xFFFF, the lowest index among equal times, and 0xFF
\* exactly when there is no such player; times [250, penalty, 180, penalty]
\* of four finished players give index 2.
C4_Finishers ==
  {i \in Slots : /\ players[i].joined /\ slotToStick[i] # NONE
                 /\ (inDeuce => (i = deucePlayer[1] \/ i = deucePlayer[2]))
                 /\ players[i].finished /\ players[i].reactionTime < 65535}
C4_Example ==
  /\ ~inDeuce
  /\ \A i \in Slots : players[i].joined /\ players[i].finished
  /\ [i \in Slots |-> players[i].reactionTime] = [i \in Slots |->
        IF i = 0 THEN 250 ELSE IF i = 2 THEN 180 ELSE TIME_PENALTY]
C4_FindRoundWinner ==
  ret.f = "findRoundWinner" =>
    /\ (ret.val = NONE) <=> (C4_Finishers = {})
    /\ ret.val # NONE =>
         /\ ret.val \in C4_Finishers
         /\ \A j \in C4_Finishers :
              \/ players[ret.val].reactionTime < players[j].reactionTime
              \/ players[ret.val].reactionTime = players[j].reactionTime /\ ret.val <= j
    /\ C4_Example => ret.val = 2
C4_Witness == ret.f = "findRoundWinner" /\ C4_Example /\ ret.val = 2

\* C5: isActivePlayer(i) is true exactly when slot i is joined and claimed
\* and, in a deuce, i is one of the two deuce players; in the deuce of 1 and 3
\* with four joined it is false for 0 and 2 and true for 1 and 3.
C5_Example == inDeuce /\ deucePlayer = <<1, 3>> /\ \A i \in Slots : players[i].joined
C5_IsActivePlayer ==
  ret.f = "isActivePlayer" =>
    /\ ret.val <=> /\ players[ret.arg].joined /\ slotToStick[ret.arg] # NONE
                   /\ (inDeuce => ret.arg \in {deucePlayer[1], deucePlayer[2]})
    /\ C5_Example => (ret.val <=> ret.arg \in {1, 3})
C5_Witness == ret.f = "isActivePlayer" /\ C5_Example /\ ret.arg = 0 /\ ~ret.val

\* ------------------------------------------------------------------------
\* SpecResults: the end of a round.  A behaviour starts at the entry of
\* STATE_SHOW_RESULTS of round TOTAL_ROUNDS - 1, of round TOTAL_ROUNDS or of
\* a deuce round, with two to four joined players, every score the earlier
\* rounds can have left and every outcome of the round, and goes on to the
\* start of the next round or to the end of the match.
\* ------------------------------------------------------------------------
MaxScore == 2

RECURSIVE SumScores(_, _)
SumScores(sc, i) == IF i >= MAX_PLAYERS THEN 0 ELSE sc[i] + SumScores(sc, i + 1)

\* the scores the rounds played so far can have left: one point a round at
\* most; in a deuce its two players were level above the others when it
\* began and have not been two apart since
ScoresBefore(J, dp, round) ==
  {sc \in [Slots -> 0 .. MaxScore + 1] :
     /\ \A i \in Slots \ J : sc[i] = 0
     /\ IF dp[1] = NONE
        THEN /\ SumScores(sc, 0) <= round - 1
             /\ \A i \in J : sc[i] <= MaxScore
        ELSE \E top \in 0 .. MaxScore :
               /\ {sc[dp[1]], sc[dp[2]]} \in {{top}, {top, top + 1}}
               /\ \A i \in J \ {dp[1], dp[2]} : sc[i] < top}

InitResults ==
  /\ gameState = STATE_SHOW_RESULTS
  /\ stateStartTime = Unset
  /\ \E J \in SUBSET Slots : \E dp \in DeucePairs(J) :
     \E round \in {TOTAL_ROUNDS - 1, TOTAL_ROUNDS, TOTAL_ROUNDS + 1} :
     \E sc \in ScoresBefore(J, dp, round) : \E t \in [J -> {180, TIME_PENALTY}] :
       LET active(i) == i \in J /\ (dp[1] = NONE \/ i = dp[1] \/ i = dp[2]) IN
       /\ Cardinality(J) >= 2
       /\ (dp[1] # NONE) = (round > TOTAL_ROUNDS)
       /\ \A i \in J : ~active(i) => t[i] = TIME_PENALTY
       /\ slotToStick = [i \in Slots |-> IF i \in J THEN ID_STICK1 + i ELSE NONE]
       /\ stickClaimed = [i \in Slots |-> IF i \in J THEN 1 ELSE 0]
       /\ joinedCount = Cardinality(J)
       /\ deucePlayer = dp
       /\ currentRound = round
       /\ players = [i \in Slots |->
                       IF i \in J
                       THEN [joined |-> TRUE, finished |-> active(i), reactionTime |-> t[i],
                             score |-> sc[i]]
                       ELSE resetPlayersRec]
       /\ pendingAcks = [i \in AckSlots |->
                           IF i = 4 THEN GivenUp(ID_DISPLAY, DISP_GO, 0)
                           ELSE IF active(i) THEN GivenUp(ID_STICK1 + i, CMD_GO, 0)
                           ELSE IF i \in J THEN GivenUp(ID_STICK1 + i, CMD_IDLE, 0)
                           ELSE PendingInit]
       /\ txCount = [i \in AckSlots |-> IF i = 4 \/ i \in J THEN 1 + ACK_MAX_RETRIES ELSE 0]
       /\ fate = [i \in AckSlots |-> IF i = 4 \/ i \in J THEN "abandoned" ELSE "none"]
  /\ inDeuce = (deucePlayer[1] # NONE)
  /\ currentPromptSlot = MAX_PLAYERS - 1
  /\ promptStartTime = 0
  /\ joinComplete = TRUE
  /\ joinCompleteTime = 0
  /\ gameMode = MODE_REACTION
  /\ delayIdx = 0
  /\ targetIdx = 0
  /\ lastDelayIdx = 0
  /\ lastTargetIdx = 0
  /\ modeBag = <<MODE_SHAKE, MODE_REACTION>>
  /\ modeBagIdx = 2
  /\ reactionInstructPlayed = TRUE
  /\ shakeInstructPlayed = TRUE
  /\ reactionAnnouncementDone = TRUE
  /\ reactionFirstInstruct = FALSE
  /\ shakeProgress = [i \in Slots |-> 0]
  /\ countdownNum = 0
  /\ shakeAnnouncementDone = TRUE
  /\ shakeFirstInstruct = FALSE
  /\ collectYellowPhase = TRUE
  /\ collectYellowStart = 0
  /\ resultsPhase2 = FALSE
  /\ outbox = <<>>
  /\ stick = StickBoot
  /\ last = Step("handleCollect")
  /\ ret = NoCall
  /\ looped = TRUE
  /\ roundsLeft = 1

NextResults ==
  \/ Tick(Quantum)
  \/ HandleShowResults
  \/ HandleCountdownEntry
  \/ HandleFinalWinner

SpecResults == InitResults /\ [][NextResults]_vars

\* the step is the call of handleShowResults that leaves STATE_SHOW_RESULTS
LeavesResults ==
  /\ last'.op = "handleShowResults"
  /\ gameState = STATE_SHOW_RESULTS
  /\ gameState' # STATE_SHOW_RESULTS
\* the lead between the two players of the deuce, on player records P
DeuceLead(P) == Abs(P[deucePlayer[1]].score - P[deucePlayer[2]].score)
\* the step sends cmd to stick id
SendsTo(id, cmd) == \E k \in 1 .. Len(outbox') : outbox'[k][1] = id /\ outbox'[k][2] = cmd

\* C12: in a deuce handleShowResults goes to STATE_FINAL_WINNER only when the
\* scores of the two deuce players differ by DEUCE_LEAD or more, and otherwise
\* starts another round (STATE_COUNTDOWN) for those two players only; a match
\* in a deuce reaches STATE_FINAL_WINNER in no other way.
C12_Step ==
  /\ (LeavesResults /\ inDeuce) =>
       /\ gameState' = IF DeuceLead(players') >= DEUCE_LEAD THEN STATE_FINAL_WINNER
                                                             ELSE STATE_COUNTDOWN
       /\ stateStartTime' = Unset
       /\ UNCHANGED <<inDeuce, deucePlayer, slotToStick>>
  /\ (inDeuce /\ gameState # STATE_FINAL_WINNER /\ gameState' = STATE_FINAL_WINNER) =>
       /\ LeavesResults
       /\ DeuceLead(players') >= DEUCE_LEAD
  /\ (inDeuce /\ last'.op = "handleCountdown") =>
       /\ \A id \in ID_STICK1 .. ID_STICK4 :
            SendsTo(id, CMD_GAME_START) <=>
              id \in {slotToStick[deucePlayer[1]], slotToStick[deucePlayer[2]]}
       /\ UNCHANGED <<inDeuce, deucePlayer>>
C12_Active ==
  inDeuce => /\ deucePlayer[1] \in Slots /\ deucePlayer[2] \in Slots
             /\ deucePlayer[1] # deucePlayer[2]
             /\ \A i \in Slots : isActivePlayer(i) <=> i \in {deucePlayer[1], deucePlayer[2]}
C12_DeuceEnds == [][C12_Step]_vars /\ []C12_Active
\* a deuce round of four joined players has ended with the lead reached
C12_Witness ==
  /\ inDeuce
  /\ joinedCount = MAX_PLAYERS
  /\ gameState = STATE_FINAL_WINNER
  /\ last.op = "handleShowResults"
  /\ DeuceLead(players) = DEUCE_LEAD
\* a deuce round has ended level and the next round has been started
C12_WitnessAgain ==
  /\ inDeuce
  /\ joinedCount = MAX_PLAYERS
  /\ last.op = "handleCountdown"
  /\ DeuceLead(players) < DEUCE_LEAD
  /\ currentRound = TOTAL_ROUNDS + 2

\* the joined players no joined player has more points than, on player records P
TopScorers(P) ==
  {i \in Slots : P[i].joined /\ \A j \in Slots : P[j].joined => P[j].score <= P[i].score}

\* C13: when round TOTAL_ROUNDS ends outside a deuce, handleShowResults enters
\* the deuce exactly when exactly two joined players share the highest score:
\* then inDeuce is set with those two as deucePlayer, the stick of every other
\* joined player is sent CMD_IDLE and a new round starts; otherwise it goes to
\* STATE_FINAL_WINNER.  Before round TOTAL_ROUNDS has ended the deuce is never
\* entered.
C13_Step ==
  /\ (LeavesResults /\ ~inDeuce /\ currentRound = TOTAL_ROUNDS) =>
       LET top == TopScorers(players') IN
       IF Cardinality(top) = 2
       THEN /\ inDeuce'
            /\ {deucePlayer'[1], deucePlayer'[2]} = top
            /\ gameState' = STATE_COUNTDOWN
            /\ stateStartTime' = Unset
            /\ \A i \in Slots :
                 slotToStick[i] # NONE =>
                   (SendsTo(slotToStick[i], CMD_IDLE) <=> (players[i].joined /\ i \notin top))
       ELSE /\ gameState' = STATE_FINAL_WINNER
            /\ UNCHANGED <<inDeuce, deucePlayer>>
            /\ \A i \in Slots : slotToStick[i] # NONE => ~SendsTo(slotToStick[i], CMD_IDLE)
  /\ (LeavesResults /\ ~inDeuce /\ currentRound < TOTAL_ROUNDS) =>
       /\ gameState' = STATE_COUNTDOWN
       /\ UNCHANGED <<inDeuce, deucePlayer>>
  /\ (~inDeuce /\ inDeuce') => (LeavesResults /\ currentRound = TOTAL_ROUNDS)
C13_Rounds == ~inDeuce => currentRound <= TOTAL_ROUNDS
C13_DeuceEntry == [][C13_Step]_vars /\ []C13_Rounds
\* the deuce of slots 1 and 3 has been entered with four players joined
C13_Witness ==
  /\ inDeuce
  /\ deucePlayer = <<1, 3>>
  /\ joinedCount = MAX_PLAYERS
  /\ currentRound = TOTAL_ROUNDS
  /\ gameState = STATE_COUNTDOWN
  /\ last.op = "handleShowResults"
  /\ pendingAcks[0].waiting /\ pendingAcks[0].cmd = CMD_IDLE
  /\ pendingAcks[2].waiting /\ pendingAcks[2].cmd = CMD_IDLE
  /\ ~pendingAcks[1].waiting /\ ~pendingAcks[3].waiting
\* three players level at the top after round TOTAL_ROUNDS: no deuce
C13_WitnessThree ==
  /\ ~inDeuce
  /\ currentRound = TOTAL_ROUNDS
  /\ gameState = STATE_FINAL_WINNER
  /\ last.op = "handleShowResults"
  /\ Cardinality(TopScorers(players)) = 3

\* ------------------------------------------------------------------------
\* SpecBag: the shuffle bag of game modes.  From power-up getNextGameMode is
\* called again and again, random(2) giving either value, and resetPlayers
\* in between as at the start of a new match; ret.arg holds the modes drawn
\* since the bag was last fresh.
\* ------------------------------------------------------------------------
MaxDraws == 10

\* the host's globals other than the bag
bagFrame ==
  <<gameState, stateStartTime, players, joinedCount, currentRound,
    inDeuce, deucePlayer, slotToStick, stickClaimed, currentPromptSlot,
    promptStartTime, joinComplete, joinCompleteTime,
    gameMode, delayIdx, targetIdx, lastDelayIdx, lastTargetIdx,
    reactionInstructPlayed, shakeInstructPlayed,
    reactionAnnouncementDone, reactionFirstInstruct,
    shakeProgress, countdownNum, shakeAnnouncementDone, shakeFirstInstruct,
    collectYellowPhase, collectYellowStart, resultsPhase2>>

\* the modes drawn since the bag was last fresh
Drawn == IF ret.f = "none" THEN <<>> ELSE ret.arg

CallGetNextGameMode ==
  /\ Len(Drawn) < MaxDraws
  /\ \E swap \in BOOLEAN :
       LET g == getNextGameMode(swap) IN
       /\ modeBag' = g.modeBag
       /\ modeBagIdx' = g.modeBagIdx
       /\ ret' = [f |-> "getNextGameMode", arg |-> Append(Drawn, g.mode), val |-> g.mode]
  /\ UNCHANGED stick
  /\ last' = Step("getNextGameMode")
  /\ UNCHANGED <<bagFrame, chanVars, outbox, looped, roundsLeft>>

\* void resetPlayers()
CallResetPlayers ==
  /\ ret.f = "getNextGameMode"
  /\ players' = [i \in Slots |-> resetPlayersRec]
  /\ slotToStick' = [i \in Slots |-> NONE]
  /\ stickClaimed' = [i \in Slots |-> 0]
  /\ joinedCount' = 0
  /\ currentPromptSlot' = 0
  /\ modeBagIdx' = 2
  /\ reactionInstructPlayed' = FALSE
  /\ shakeInstructPlayed' = FALSE
  /\ inDeuce' = FALSE
  /\ deucePlayer' = <<NONE, NONE>>
  /\ pendingAcks' = [i \in AckSlots |-> [pendingAcks[i] EXCEPT !.waiting = FALSE]]
  /\ fate' = [i \in AckSlots |-> IF pendingAcks[i].waiting THEN "reset" ELSE fate[i]]
  /\ ret' = [f |-> "resetPlayers", arg |-> <<>>, val |-> 0]
  /\ UNCHANGED stick
  /\ last' = Step("resetPlayers")
  /\ UNCHANGED <<gameState, stateStartTime, currentRound, promptStartTime, joinComplete,
                 joinCompleteTime, modeBag, modeVars, reactionFirstInstruct,
                 shakeFirstInstruct, announceVars, shakeProgress, collectVars,
                 resultsPhase2, txCount, outbox, looped, roundsLeft>>

NextBag == CallGetNextGameMode \/ CallResetPlayers

SpecBag == Init /\ [][NextBag]_vars

BothModes == {MODE_REACTION, MODE_SHAKE}

\* C15: from a fresh bag (modeBagIdx = 2) the (2k+1)-th and the (2k+2)-th
\* result of getNextGameMode are, for every k, the two different modes
\* MODE_REACTION and MODE_SHAKE in some order; modeBag always holds the two
\* modes, once each.
C15_ShuffleBag ==
  /\ \A k \in 0 .. MaxDraws :
       2 * k + 2 <= Len(Drawn) => {Drawn[2 * k + 1], Drawn[2 * k + 2]} = BothModes
  /\ \A k \in 1 .. Len(Drawn) : Drawn[k] \in BothModes
  /\ {modeBag[1], modeBag[2]} = BothModes
\* six draws from a fresh bag after a match of three rounds, the pairs in
\* different orders
C15_Witness ==
  /\ ret.f = "getNextGameMode"
  /\ Len(ret.arg) = 6
  /\ ret.arg[1] = MODE_SHAKE /\ ret.arg[3] = MODE_REACTION /\ ret.arg[5] = MODE_SHAKE
  /\ modeBagIdx = 2

\* ------------------------------------------------------------------------
\* SpecStick and SpecShake: the joystick in a round.  A behaviour starts when
\* the host has sent CMD_GO for the first round of a match to the sticks of
\* the NumSticks joined players; the joystick MY_ID holds slot 0, has handled
\* CMD_GAME_START and waits for CMD_GO, its button up or down, its clock at
\* one of BootAges milliseconds since boot: shortly after boot, shortly
\* before micros() wraps, and after it has wrapped.  The radio delivers the
\* host's command to the joystick (also repeatedly: the host retransmits) and
\* the joystick's packets to the host in order; the other sticks report or
\* not.  Time passes on the joystick half a timeout at a time.
\* ------------------------------------------------------------------------
MaxTicks == 3
MaxSamples == 4

MicrosWrapMs == MicrosWrap \div UnitsPerMs
BootAges == {1000, MicrosWrapMs - (STICK_TIMEOUT_REACTION \div 2), MicrosWrapMs + 1000}
EnergyVals ==
  {0, SHAKE_THRESHOLD_LOW - 1, SHAKE_THRESHOLD_LOW,
   SHAKE_THRESHOLD_HIGH - 1, SHAKE_THRESHOLD_HIGH, SHAKE_THRESHOLD_HIGH + 1}

InitStick(mode, ages, levels) ==
  /\ gameState = IF mode = MODE_REACTION THEN STATE_COLLECT ELSE STATE_SHAKE
  /\ stateStartTime = 0
  /\ players = [i \in Slots |-> [joined |-> i < NumSticks, finished |-> FALSE,
                                  reactionTime |-> 65535, score |-> 0]]
  /\ joinedCount = NumSticks
  /\ currentRound = 1
  /\ inDeuce = FALSE
  /\ deucePlayer = <<NONE, NONE>>
  /\ slotToStick = [i \in Slots |-> IF i < NumSticks THEN ID_STICK1 + i ELSE NONE]
  /\ stickClaimed = [i \in Slots |-> IF i < NumSticks THEN 1 ELSE 0]
  /\ currentPromptSlot = MAX_PLAYERS - 1
  /\ promptStartTime = 0
  /\ joinComplete = TRUE
  /\ joinCompleteTime = JOIN_COMPLETE_DELAY + 1
  /\ gameMode = mode
  /\ delayIdx = 0
  /\ targetIdx = 0
  /\ lastDelayIdx = IF mode = MODE_REACTION THEN 0 ELSE NONE
  /\ lastTargetIdx = IF mode = MODE_SHAKE THEN 0 ELSE NONE
  /\ modeBag = <<mode, IF mode = MODE_REACTION THEN MODE_SHAKE ELSE MODE_REACTION>>
  /\ modeBagIdx = 1
  /\ reactionInstructPlayed = (mode = MODE_REACTION)
  /\ shakeInstructPlayed = (mode = MODE_SHAKE)
  /\ reactionAnnouncementDone = (mode = MODE_REACTION)
  /\ reactionFirstInstruct = (mode = MODE_REACTION)
  /\ shakeProgress = [i \in Slots |-> 0]
  /\ countdownNum = IF mode = MODE_SHAKE THEN 0 ELSE 3
  /\ shakeAnnouncementDone = (mode = MODE_SHAKE)
  /\ shakeFirstInstruct = (mode = MODE_SHAKE)
  /\ collectYellowPhase = FALSE
  /\ collectYellowStart = 0
  /\ resultsPhase2 = FALSE
  /\ pendingAcks = [i \in AckSlots |->
                      IF i = 4
                      THEN [waiting |-> TRUE, dest |-> ID_DISPLAY, cmd |-> DISP_GO, data |-> 0,
                            retries |-> ACK_MAX_RETRIES, lastSend |-> 0]
                      ELSE IF i < NumSticks
                      THEN [waiting |-> TRUE, dest |-> ID_STICK1 + i, cmd |-> CMD_GO, data |-> 0,
                            retries |-> ACK_MAX_RETRIES, lastSend |-> 0]
                      ELSE PendingInit]
  /\ txCount = [i \in AckSlots |-> IF i = 4 \/ i < NumSticks THEN 1 ELSE 0]
  /\ fate = [i \in AckSlots |-> IF i = 4 \/ i < NumSticks THEN "pending" ELSE "none"]
  /\ outbox = <<>>
  /\ last = Step(IF mode = MODE_REACTION THEN "handleReaction" ELSE "handleCountdown")
  /\ ret = NoCall
  /\ looped = TRUE
  /\ roundsLeft = 0
  /\ \E age \in ages, level \in levels :
       stick = [StickBoot EXCEPT !.jsState = JS_WAITING_GO,
                                 !.currentMode = mode,
                                 !.shakeTarget = IF mode = MODE_SHAKE THEN SHAKE_TARGETS[1] ELSE 0,
                                 !.assignedSlot = 1,
                                 !.pin = level,
                                 !.lastButtonState = level,
                                 !.clock = age * UnitsPerMs,
                                 !.op = "OnDataRecv"]

\* what a step of the joystick leaves alone
StickFrame == UNCHANGED <<hostVars, chanVars, outbox, last, ret, looped, roundsLeft>>

\* half the timeout of the running mode passes on the joystick
StickTick ==
  /\ stick.ticks < MaxTicks
  /\ stick.jsState # JS_DONE
  /\ LET d == (IF stick.currentMode = MODE_SHAKE THEN STICK_TIMEOUT_SHAKE
                                                 ELSE STICK_TIMEOUT_REACTION) \div 2
     IN stick' = [stick EXCEPT !.clock = @ + d * UnitsPerMs, !.ticks = @ + 1,
                               !.out = <<>>, !.op = "tick"]
  /\ StickFrame

\* the radio delivers the command the host last sent to the joystick
StickRecv ==
  LET pa == pendingAcks[ackSlotFor(MY_ID)] IN
  /\ pa.dest = MY_ID
  /\ stick' = [StickOnDataRecv(stick, pa.cmd, pa.data) EXCEPT !.out = <<>>, !.op = "OnDataRecv"]
  /\ StickFrame

\* the button goes down: the falling edge runs onButton
ButtonPress ==
  /\ stick.pin = "HIGH"
  /\ stick' = [onButton([stick EXCEPT !.pin = "LOW"]) EXCEPT !.out = <<>>, !.op = "onButton"]
  /\ StickFrame

\* the button goes up
ButtonRelease ==
  /\ stick.pin = "LOW"
  /\ stick' = [stick EXCEPT !.pin = "HIGH", !.out = <<>>, !.op = "release"]
  /\ StickFrame

\* loop(): runJoystick()
RunJoystick ==
  /\ Len(stick.samples) < MaxSamples
  /\ \E energy \in (IF stick.jsState = JS_SHAKE_COUNTING
                    THEN EnergyVals \cup {ReadFailed} ELSE {0}) :
       stick' = [runJoystick(stick, energy) EXCEPT !.op = "runJoystick"]
  /\ StickFrame

\* the radio delivers the joystick's oldest packet to the host
StickDeliver ==
  /\ stick.uplink # <<>>
  /\ OnDataRecv(MY_ID, Head(stick.uplink)[1], Head(stick.uplink)[2])
  /\ stick' = [stick EXCEPT !.uplink = Tail(@), !.out = <<>>, !.op = "deliver"]

\* another stick reports a valid time
RecvOtherResult ==
  \E src \in Sticks \ {MY_ID} :
    RecvPacket(src, IF gameMode = MODE_SHAKE THEN CMD_SHAKE_DONE ELSE CMD_REACTION_DONE, 250)

NextStick ==
  \/ StickTick
  \/ StickRecv
  \/ ButtonPress
  \/ ButtonRelease
  \/ RunJoystick
  \/ StickDeliver
  \/ RecvOtherResult

SpecStick == InitStick(MODE_REACTION, BootAges, {"HIGH", "LOW"}) /\ [][NextStick]_vars

NextShake == StickTick \/ StickRecv \/ RunJoystick \/ StickDeliver

SpecShake == InitStick(MODE_SHAKE, {1000}, {"HIGH"}) /\ [][NextShake]_vars

\* the completed cycles of a sequence of energy samples: the samples below
\* SHAKE_THRESHOLD_LOW that have a sample above SHAKE_THRESHOLD_HIGH before
\* them with no sample below SHAKE_THRESHOLD_LOW in between
Cycles(h) ==
  Cardinality({j \in 1 .. Len(h) :
                 /\ h[j] < SHAKE_THRESHOLD_LOW
                 /\ \E i \in 1 .. (j - 1) :
                      /\ h[i] > SHAKE_THRESHOLD_HIGH
                      /\ \A m \in (i + 1) .. (j - 1) : h[m] >= SHAKE_THRESHOLD_LOW})

\* C14: for any sequence of energy samples fed to the shake latch, shakeCount
\* is the number of completed cycles "a sample above SHAKE_THRESHOLD_HIGH
\* followed later by a sample below SHAKE_THRESHOLD_LOW", both strictly:
\* samples between 0 and SHAKE_THRESHOLD_HIGH - 1 count nothing, and K
\* alternations above HIGH and below LOW count K.
C14_ShakeCount ==
  /\ stick.shakeCount = Cycles(stick.samples)
  /\ (\A k \in 1 .. Len(stick.samples) : stick.samples[k] < SHAKE_THRESHOLD_HIGH)
       => stick.shakeCount = 0
  /\ stick.shakePeaked <=>
       \E i \in 1 .. Len(stick.samples) :
         /\ stick.samples[i] > SHAKE_THRESHOLD_HIGH
         /\ \A m \in (i + 1) .. Len(stick.samples) : stick.samples[m] >= SHAKE_THRESHOLD_LOW
\* two alternations, the peaks one above the threshold, have counted two
C14_Witness ==
  /\ stick.jsState = JS_SHAKE_COUNTING
  /\ stick.samples = <<SHAKE_THRESHOLD_HIGH + 1, SHAKE_THRESHOLD_LOW - 1,
                       SHAKE_THRESHOLD_HIGH + 1, SHAKE_THRESHOLD_LOW - 1>>
  /\ stick.shakeCount = 2
\* samples at 0 and at SHAKE_THRESHOLD_HIGH - 1 in turn have counted nothing
C14_WitnessBelow ==
  /\ stick.samples = <<0, SHAKE_THRESHOLD_HIGH - 1, 0, SHAKE_THRESHOLD_HIGH - 1>>
  /\ stick.shakeCount = 0

\* the step is a pass of runJoystick
IsRunJoystick == stick'.pass # stick.pass
\* the step delivers a packet of the joystick to the host
IsDeliver == Len(stick'.uplink) < Len(stick.uplink)

\* the slot the joystick MY_ID holds
MySlot == CHOOSE i \in Slots : slotToStick[i] = MY_ID

\* C16: in reaction mode, when the button is down as the joystick processes
\* GO, it reports CMD_REACTION_DONE with TIME_PENALTY and nothing else and
\* goes to JS_DONE without passing through JS_REACTION_TIMING; the host then
\* records TIME_PENALTY for the player, who is not the winner of the round.
C16_Step ==
  /\ (/\ IsRunJoystick
      /\ stick.jsState = JS_WAITING_GO /\ stick.g_go_received
      /\ stick.currentMode = MODE_REACTION
      /\ stick.pin = "LOW")
     => /\ stick'.out = << <<CMD_REACTION_DONE, TIME_PENALTY>> >>
        /\ stick'.jsState = JS_DONE
        /\ stick'.early
  /\ (stick.early /\ IsDeliver)
     => /\ players'[MySlot].finished
        /\ players'[MySlot].reactionTime = TIME_PENALTY
C16_Penalised ==
  stick.early =>
    /\ stick.jsState = JS_DONE
    /\ \A k \in 1 .. Len(stick.uplink) : stick.uplink[k] = <<CMD_REACTION_DONE, TIME_PENALTY>>
    /\ players[MySlot].finished => players[MySlot].reactionTime = TIME_PENALTY
    /\ stick.uplink = <<>> => players[MySlot].finished
    /\ findRoundWinner # MySlot
C16_EarlyPress == [][C16_Step]_vars /\ []C16_Penalised
\* the early press has been reported and recorded while the other player has a valid time
C16_Witness ==
  /\ stick.early
  /\ stick.op = "deliver"
  /\ players[MySlot].finished /\ players[MySlot].reactionTime = TIME_PENALTY
  /\ findRoundWinner = 1

\* C17: in JS_REACTION_TIMING, no press captured, the joystick reports
\* TIME_PENALTY when, and only when, more than TIMEOUT_REACTION milliseconds
\* have passed since GO was received, whatever the values of micros() at GO
\* and of millis(), also after micros() has wrapped around 2^32.
C17_Step ==
  (/\ IsRunJoystick
   /\ stick.jsState = JS_REACTION_TIMING
   /\ ~stick.g_button_pressed)
  => LET elapsed == millis(stick) - (stick.goClock \div UnitsPerMs) IN
     /\ (elapsed > STICK_TIMEOUT_REACTION) =>
          stick'.out = << <<CMD_REACTION_DONE, TIME_PENALTY>> >> /\ stick'.jsState = JS_DONE
     /\ (elapsed <= STICK_TIMEOUT_REACTION) =>
          stick'.out = <<>> /\ stick'.jsState = JS_REACTION_TIMING
C17_TimeoutPenalty == [][C17_Step]_vars
\* the same for a GO handled before micros() has wrapped
C17_BeforeWrap == [][stick.goClock < MicrosWrap => C17_Step]_vars

\* ------------------------------------------------------------------------
\* The return to STATE_IDLE after a match (SpecMatch)
\* ------------------------------------------------------------------------
\* the step is the first call of handleIdle in STATE_IDLE
EntersIdle == last'.op = "handleIdle" /\ gameState = STATE_IDLE /\ stateStartTime = Unset

\* C19: when the host enters STATE_IDLE at the end of a match it sends
\* CMD_IDLE to every stick that held a player slot in the match.
C19_Step ==
  EntersIdle => \A i \in Slots : slotToStick[i] # NONE => SendsTo(slotToStick[i], CMD_IDLE)
C19_IdleToSticks == [][C19_Step]_vars

\* C20: the first call of handleIdle in STATE_IDLE clears the slot-to-stick
\* table, stickClaimed, the joined and finished flags, the scores,
\* joinedCount, currentRound and the deuce state, and leaves no pending ack
\* waiting but those it creates itself; STATE_IDLE is left only by
\* handleIdle, for STATE_JOIN, on the first call after IDLE_DWELL.
C20_Step ==
  /\ EntersIdle =>
       /\ \A i \in Slots :
            /\ slotToStick'[i] = NONE
            /\ stickClaimed'[i] = 0
            /\ ~players'[i].joined /\ ~players'[i].finished /\ players'[i].score = 0
       /\ joinedCount' = 0
       /\ currentRound' = 0
       /\ ~inDeuce' /\ deucePlayer' = <<NONE, NONE>>
       /\ \A s \in AckSlots : pendingAcks'[s].waiting => SendsAnew(s)
       /\ gameState' = STATE_IDLE
  /\ (gameState = STATE_IDLE /\ last'.op = "handleIdle" /\ stateStartTime # Unset) =>
       /\ gameState' = IF stateStartTime > IDLE_DWELL THEN STATE_JOIN ELSE STATE_IDLE
       /\ UNCHANGED <<regVars, currentRound, deuceVars>>
  /\ (gameState = STATE_IDLE /\ gameState' # STATE_IDLE) =>
       /\ gameState' = STATE_JOIN
       /\ last'.op = "handleIdle"
       /\ stateStartTime # Unset /\ stateStartTime > IDLE_DWELL
C20_Cleared ==
  (gameState = STATE_IDLE /\ stateStartTime # Unset) =>
    /\ joinedCount = 0 /\ currentRound = 0 /\ ~inDeuce
    /\ \A i \in Slots : slotToStick[i] = NONE /\ stickClaimed[i] = 0 /\ ~players[i].joined
C20_IdleResets == [][C20_Step]_vars /\ []C20_Cleared
\* STATE_IDLE has just been entered after a match in which stick 1 was sent commands
C20_Witness ==
  /\ gameState = STATE_IDLE /\ stateStartTime = 0
  /\ last.op = "handleIdle"
  /\ joinedCount = 0 /\ currentRound = 0
  /\ pendingAcks[0].dest = ID_STICK1 /\ ~pendingAcks[0].waiting
  /\ pendingAcks[4].waiting /\ pendingAcks[4].cmd = DISP_IDLE

\* ------------------------------------------------------------------------
\* The packet codec: the checksum
\* ------------------------------------------------------------------------
PACKET_START == 10
PACKET_SIZE == 7

\* bit i of a
BitOf(a, i) == (a \div (2 ^ i)) % 2
\* a ^ b on the low n bits of the operands
XorBits(a, b, n) ==
  LET x(i) == IF i < n THEN ((BitOf(a, i) + BitOf(b, i)) % 2) * (2 ^ i) ELSE 0
  IN x(0) + x(1) + x(2) + x(3) + x(4) + x(5) + x(6) + x(7)

\* the inner loop of CRC8: i bits of extract are still to be shifted in
RECURSIVE crcBits(_, _, _)
crcBits(crc, extract, i) ==
  IF i = 0 THEN crc
  ELSE LET sum == ((crc % 2) + (extract % 2)) % 2
           shifted == crc \div 2
       IN crcBits(IF sum = 1 THEN XorBits(shifted, 140, 8) ELSE shifted, extract \div 2, i - 1)

\* the outer loop of CRC8: bytes k .. len of data
RECURSIVE crcBytes(_, _, _, _)
\* (crc is a uint8_t; testing it here evaluates it before the next byte)
crcBytes(crc, data, k, len) ==
  IF k > len \/ crc > 255 THEN crc ELSE crcBytes(crcBits(crc, data[k], 8), data, k + 1, len)

\* a checksum that leaves out the last byte
CRC8_SkipsLast(data, len) == crcBytes(0, data, 1, len - 1)

\* CRC8(data, len) of Protocol.h
CRC8(data, len) == crcBytes(0, data, 1, len)

\* calcCRC8(data, len) of DisplayProtocol.h, with its own loops
RECURSIVE calcBits(_, _, _)
calcBits(crc, extract, i) ==
  IF i = 0 THEN crc
  ELSE LET sum == XorBits(crc, extract, 1)
           shifted == crc \div 2
       IN calcBits(IF sum = 1 THEN XorBits(shifted, 140, 8) ELSE shifted, extract \div 2, i - 1)
RECURSIVE calcCRC8(_, _)
calcCRC8(data, len) ==
  IF len = 0 THEN 0
  ELSE LET crc == calcCRC8(data, len - 1)
       IN IF crc > 255 THEN crc ELSE calcBits(crc, data[len], 8)

\* bit b (0 .. 7) of byte x inverted
FlipBitOf(x, b) == XorBits(x, 2 ^ b, 8)
\* bit k of the byte sequence inverted, bit 0 the lowest bit of the first byte
FlipBit(bytes, k) ==
  [j \in 1 .. Len(bytes) |-> IF j = (k \div 8) + 1 THEN FlipBitOf(bytes[j], k % 8) ELSE bytes[j]]

\* ------------------------------------------------------------------------
\* SpecCrc: the checksum of a payload, and one bit of payload and checksum
\* inverted on the way
\* ------------------------------------------------------------------------
\* the values a payload byte takes
ByteVals == {0, 1, 140, 255}
Payloads == [1 .. 5 -> ByteVals]

\* the sender computes the checksum of a payload
CallCRC8 ==
  /\ ret.f = "none"
  /\ \E p \in Payloads : ret' = [f |-> "CRC8", arg |-> p, val |-> CRC8(p, 5)]
  /\ last' = Step("CRC8")
  /\ UNCHANGED <<hostVars, chanVars, outbox, looped, roundsLeft, stick>>

\* one bit of the five payload bytes and the checksum byte is inverted
FlipOneBit ==
  /\ ret.f = "CRC8"
  /\ \E k \in 0 .. 47 :
       ret' = [f |-> "flip", arg |-> FlipBit(ret.arg \o <<ret.val>>, k), val |-> k]
  /\ last' = Step("flip")
  /\ UNCHANGED <<hostVars, chanVars, outbox, looped, roundsLeft, stick>>

NextCrc == CallCRC8 \/ FlipOneBit

SpecCrc == Init /\ [][NextCrc]_vars

\* C21: after any single bit of the payload [dest, src, cmd, data_hi,
\* data_lo] or of its CRC8 checksum byte has been inverted, the CRC8 of the
\* five received payload bytes differs from the received checksum byte.
C21_SingleBit ==
  ret.f = "flip" => CRC8(SubSeq(ret.arg, 1, 5), 5) # ret.arg[6]
\* bit 7 of data_lo of the payload <<255, 1, 140, 1, 0>> has been inverted
C21_Witness ==
  /\ ret.f = "flip" /\ ret.val = 39
  /\ ret.arg[1] = 255 /\ ret.arg[2] = 1 /\ ret.arg[3] = 140 /\ ret.arg[4] = 1
  /\ ret.arg[5] = 128

\* ------------------------------------------------------------------------
\* The timeouts of host and joystick
\* ------------------------------------------------------------------------
\* C23: the joystick's TIMEOUT_REACTION equals the host's TIMEOUT_REACTION
\* and the joystick's TIMEOUT_SHAKE equals the host's TIMEOUT_SHAKE: the
\* timeout the joystick is timing a round with is the host's.
C23_TimeoutsMatch ==
  /\ stick.jsState = JS_REACTION_TIMING => STICK_TIMEOUT_REACTION = TIMEOUT_REACTION
  /\ stick.jsState = JS_SHAKE_COUNTING => STICK_TIMEOUT_SHAKE = TIMEOUT_SHAKE
\* the shake timeouts do agree
C23_ShakeTimeoutsMatch ==
  stick.jsState = JS_SHAKE_COUNTING => STICK_TIMEOUT_SHAKE = TIMEOUT_SHAKE

\* ------------------------------------------------------------------------
\* SpecPlay: the results of round TOTAL_ROUNDS - 1, or of a round of the
\* deuce of slots 0 and 2, are shown to three players and the round that
\* follows is played, while any of the four sticks reports a result at any
\* time.
\* ------------------------------------------------------------------------
InitPlay ==
  /\ InitResults
  /\ \A i \in Slots : players[i].joined = (i < 3)
  /\ \A i \in Slots : isActivePlayer(i) => players[i].reactionTime = 180
  /\ IF inDeuce
     THEN /\ deucePlayer = <<0, 2>>
          /\ players[0].score = 1 /\ players[1].score = 0 /\ players[2].score = 1
     ELSE /\ currentRound = TOTAL_ROUNDS - 1
          /\ players[0].score = 2 /\ players[1].score = 1 /\ players[2].score = 0

AllSticks == ID_STICK1 .. ID_STICK4
\* the times a stick reports
PlayVals == {180, 250}

\* a stick, joined or not, reports a result with either command
RecvAnyResult ==
  \E src \in AllSticks, cmd \in {CMD_REACTION_DONE, CMD_SHAKE_DONE}, v \in PlayVals :
    RecvPacket(src, cmd, v)

NextPlay == Tick(Quantum) \/ HandleRound \/ RecvAnyResult

SpecPlay == InitPlay /\ [][NextPlay]_vars

\* the step is OnDataRecv handling a result packet
IsResultRecv ==
  /\ last'.op = "OnDataRecv"
  /\ last'.cmd \in {CMD_REACTION_DONE, CMD_SHAKE_DONE}
\* the slot of the stick the packet of the step comes from, -1 if it has none
SenderSlot == playerSlotFrom(last'.src, 0)

\* C24: a CMD_REACTION_DONE or CMD_SHAKE_DONE received in a state other than
\* STATE_COLLECT and STATE_SHAKE, or from a player already finished, or from
\* a stick that owns no slot, changes no game state; a player's recorded
\* result is not changed by any later packet.
C24_Step ==
  /\ (/\ IsResultRecv
      /\ \/ gameState \notin {STATE_COLLECT, STATE_SHAKE}
         \/ SenderSlot < 0
         \/ players[SenderSlot].finished)
     => UNCHANGED <<hostVars, chanVars>>
  /\ last'.op = "OnDataRecv" =>
       \A i \in Slots : players[i].finished => players'[i] = players[i]
C24_ResultRejected == [][C24_Step]_vars
\* in STATE_COLLECT, with the result of slot 0 recorded, a packet of the
\* stick that owns no slot has been handled
C24_Witness ==
  /\ gameState = STATE_COLLECT
  /\ last.op = "OnDataRecv" /\ last.cmd = CMD_REACTION_DONE /\ last.src = ID_STICK4
  /\ players[0].finished /\ players[0].reactionTime = 180
  /\ ~players[2].finished
\* during the countdown a result packet of a joined stick has been handled
C24_WitnessWrongState ==
  /\ gameState = STATE_COUNTDOWN /\ stateStartTime # Unset
  /\ last.op = "OnDataRecv" /\ last.cmd = CMD_SHAKE_DONE /\ last.src = ID_STICK1
  /\ ~players[0].finished

\* C26: while inDeuce, a CMD_REACTION_DONE or CMD_SHAKE_DONE from the stick
\* of a joined player who is not one of the two deuce players changes no
\* player's finished flag or reactionTime.
C26_Step ==
  (/\ IsResultRecv
   /\ inDeuce
   /\ SenderSlot >= 0
   /\ players[SenderSlot].joined
   /\ SenderSlot # deucePlayer[1] /\ SenderSlot # deucePlayer[2])
  => \A i \in Slots : /\ players'[i].finished = players[i].finished
                      /\ players'[i].reactionTime = players[i].reactionTime
C26_ActiveOnly == [][C26_Step]_vars
\* the packets of the two deuce players and of sticks without a slot are
\* handled as required
C26_OthersUnaffected ==
  [][(IsResultRecv /\ inDeuce /\ SenderSlot >= 0) =>
       \A i \in Slots \ {SenderSlot} : players'[i] = players[i]]_vars

\* the step moves the host into STATE_SHOW_RESULTS
EntersShowResults == gameState # STATE_SHOW_RESULTS /\ gameState' = STATE_SHOW_RESULTS
\* isActivePlayer(i) after the step
isActivePlayerNext(i) == isActivePlayerIn(players', slotToStick', inDeuce', deucePlayer', i)

\* C29: whenever the host enters STATE_SHOW_RESULTS every active player has
\* finished == true, and every active player from whom no result was
\* accepted in the round has reactionTime == TIME_PENALTY.  (A round starts
\* with no player finished, and the finished flag is set by an accepted
\* result only, until the step that enters STATE_SHOW_RESULTS.)
C29_Step ==
  /\ EntersShowResults =>
       \A i \in Slots : isActivePlayerNext(i) =>
         /\ players'[i].finished
         /\ ~players[i].finished => players'[i].reactionTime = TIME_PENALTY
         /\ players[i].finished => players'[i] = players[i]
  /\ ~EntersShowResults /\ gameState \in {STATE_COLLECT, STATE_SHAKE} =>
       \A i \in Slots : (~players[i].finished /\ players'[i].finished) =>
         /\ IsResultRecv /\ SenderSlot = i
         /\ players'[i].reactionTime \in PlayVals
C29_RoundStart ==
  (gameState = STATE_REACTION \/ (gameState = STATE_COUNTDOWN /\ stateStartTime # Unset)) =>
    \A i \in Slots : ~players[i].finished /\ players[i].reactionTime = 65535
C29_AllFinished == [][C29_Step]_vars /\ []C29_RoundStart
\* round TOTAL_ROUNDS has just ended by the timeout: slot 0 reported 250,
\* slots 1 and 2 reported nothing
C29_Witness ==
  /\ gameState = STATE_SHOW_RESULTS /\ stateStartTime = Unset
  /\ currentRound = TOTAL_ROUNDS /\ ~inDeuce
  /\ players[0].finished /\ players[0].reactionTime = 250
  /\ players[1].finished /\ players[1].reactionTime = TIME_PENALTY
  /\ players[2].finished /\ players[2].reactionTime = TIME_PENALTY
\* a deuce round has just ended with both deuce players' results accepted
C29_WitnessDeuce ==
  /\ gameState = STATE_SHOW_RESULTS /\ stateStartTime = Unset
  /\ inDeuce /\ deucePlayer = <<0, 2>>
  /\ players[0].finished /\ players[0].reactionTime = 250
  /\ players[2].finished /\ players[2].reactionTime = 250
  /\ ~players[1].finished

\* ------------------------------------------------------------------------
\* FairDeuce: two players; the results of round TOTAL_ROUNDS or of a deuce
\* round are shown, and the match goes on for as long as the program plays
\* it, with no further result arriving.  loop() iterates for ever and the
\* clock advances, CoarseQuantum at a time.
\* ------------------------------------------------------------------------
CoarseQuantum == 31000

InitDeuce ==
  /\ InitResults
  /\ \A i \in Slots : players[i].joined = (i < 2)
  /\ currentRound >= TOTAL_ROUNDS
  /\ IF inDeuce
     THEN players[0].score = 3 /\ players[1].score = 2 /\ players[1].reactionTime = TIME_PENALTY
     ELSE players[0].score = 2 /\ players[1].score = 1

HandleDeuce ==
  \/ handleCountdownEntry(FALSE)
  \/ HandleCountdownWait
  \/ HandleReaction
  \/ HandleShake
  \/ HandleCollect
  \/ HandleShowResults
  \/ HandleFinalWinner

\* the draws of random(): the bag is never swapped, and the indices of
\* delay and target alternate between 0 and 1
DrawsOfDeuce ==
  /\ modeBag' = modeBag
  /\ delayIdx' \in {0, 1}
  /\ targetIdx' \in {0, 1}

LoopDeuce == HandleDeuce /\ DrawsOfDeuce

NextDeuce == Tick(CoarseQuantum) \/ LoopDeuce

FairDeuce ==
  /\ InitDeuce /\ [][NextDeuce]_vars
  /\ WF_vars(Tick(CoarseQuantum)) /\ WF_vars(LoopDeuce)

\* C27: every match terminates: after TOTAL_ROUNDS rounds, and also when it
\* goes into deuce, the host eventually reaches STATE_FINAL_WINNER and then
\* STATE_IDLE.
C27_MatchTerminates == <>(gameState = STATE_FINAL_WINNER) /\ <>(gameState = STATE_IDLE)

\* the lead of the two players of the deuce is below DEUCE_LEAD
DeuceOpen ==
  /\ inDeuce
  /\ ~deuceWon(Abs(players[deucePlayer[1]].score - players[deucePlayer[2]].score))
  /\ gameState \notin {STATE_FINAL_WINNER, STATE_IDLE}

\* C27 as amended: every match either reaches STATE_FINAL_WINNER and returns
\* to STATE_IDLE, or it stays in deuce for ever with the lead of the two
\* deuce players below DEUCE_LEAD (a deuce whose rounds never give one player
\* that lead does not end).
C27_TerminatesOrDeuce ==
  \/ <>(gameState = STATE_FINAL_WINNER) /\ <>(gameState = STATE_IDLE)
  \/ <>[]DeuceOpen

\* a deuce has been decided by the lead and the match is over
C27_Witness ==
  /\ gameState = STATE_IDLE
  /\ last.op = "handleFinalWinner"
  /\ inDeuce
  /\ currentRound > TOTAL_ROUNDS

\* the match is many rounds into a deuce that no round decides
C27_WitnessLongDeuce ==
  /\ inDeuce
  /\ gameState = STATE_COUNTDOWN
  /\ currentRound < TOTAL_ROUNDS
  /\ players[0].score = players[1].score

\* ------------------------------------------------------------------------
\* Frames on the wire.  A frame is the sequence of its bytes; frame[i + 1] is
\* byte i of the packet.  One frame is in the air (ret.arg) and the receive
\* callbacks of the host, of the joystick and of the display, and the
\* display's serial receiver, are run on it.
\* ------------------------------------------------------------------------
\* bytes 1 to 5 of the frame: DEST, SRC, CMD, DATA_HI, DATA_LO
Bytes1to5(f) == SubSeq(f, 2, 6)

\* void buildPacket(GamePacket *pkt, dest, src, cmd, data)
buildPacket(dest, src, cmd, data) ==
  LET body == <<dest, src, cmd, (data \div 256) % 256, data % 256>>
  IN <<PACKET_START>> \o body \o <<CRC8(body, 5)>>

\* bool validatePacket(const GamePacket *pkt)
validatePacket(pkt) ==
  /\ pkt[1] = PACKET_START
  /\ pkt[7] = CRC8(Bytes1to5(pkt), 5)

\* void sendPacket(HardwareSerial &serial, cmd, dataHigh, dataLow): the bytes written
sendPacket(cmd, dataHigh, dataLow) ==
  LET crcData == <<ID_HOST, ID_DISPLAY, cmd, dataHigh, dataLow>>
  IN <<PACKET_START>> \o crcData \o <<calcCRC8(crcData, 5)>>

\* bool receivePacket(HardwareSerial &serial, uint8_t *packet), the serial
\* buffer holding the bytes of the frame: 1 when it returns true
receivePacket(packet) ==
  IF Len(packet) < PACKET_SIZE THEN 0
  ELSE IF packet[1] # PACKET_START THEN 0
  ELSE IF packet[2] # ID_DISPLAY /\ packet[2] # ID_BROADCAST THEN 0
  ELSE IF calcCRC8(Bytes1to5(packet), 5) = packet[7] THEN 1
  ELSE 0

\* static void on_data_recv(info, data, len): 0 when the frame is dropped,
\* 2 when it is taken and acknowledged (send_ack), 1 when it is taken only
on_data_recv(fromHostMac, data, len) ==
  IF len # PACKET_SIZE THEN 0
  ELSE IF data[1] # PACKET_START THEN 0
  ELSE IF data[2] # ID_DISPLAY /\ data[2] # ID_BROADCAST THEN 0
  ELSE IF data[3] # ID_HOST THEN 0
  ELSE IF ~fromHostMac THEN 0
  ELSE IF calcCRC8(data, 6) # data[7] THEN 0
  ELSE IF /\ data[4] >= DISP_IDLE /\ data[4] <= DISP_PLAYER_PROMPT
          /\ ~(data[4] >= DISP_TIME_P1 /\ data[4] <= DISP_TIME_P1 + 3)
          /\ data[4] # DISP_SCORES
       THEN 2
       ELSE 1

\* the frames senders put on the wire: the host's CMD_GO to the joystick and
\* DISP_IDLE to the display, the joystick's ACK and result to the host, and
\* the display's ACK to the host over the serial line
SentFrames ==
  {buildPacket(MY_ID, ID_HOST, CMD_GO, 0),
   buildPacket(ID_DISPLAY, ID_HOST, DISP_IDLE, 0),
   buildPacket(ID_HOST, MY_ID, CMD_ACK, CMD_GO),
   buildPacket(ID_HOST, MY_ID, CMD_REACTION_DONE, 180),
   sendPacket(CMD_ACK, 0, DISP_GO)}

\* the frame with its checksum computed over bytes 1 to 5, and over bytes 0 to 5
SealBody(f) == [f EXCEPT ![7] = CRC8(Bytes1to5(f), 5)]
SealAll(f) == [f EXCEPT ![7] = calcCRC8(f, 6)]

\* a node that is neither the host, the modelled joystick nor the display
OtherNode == ID_STICK1 + 1

\* what reaches a receiver: the frame sent, or the frame with a wrong start
\* byte, a checksum over another byte range, a damaged checksum, another
\* destination, the broadcast destination, a byte lost or a byte too many
Arrivals(f) ==
  {f,
   [f EXCEPT ![1] = 0],
   SealAll(f),
   [f EXCEPT ![7] = FlipBitOf(f[7], 0)],
   SealBody([f EXCEPT ![2] = OtherNode]),
   SealAll([f EXCEPT ![2] = OtherNode]),
   SealBody([f EXCEPT ![2] = ID_BROADCAST]),
   SealAll([f EXCEPT ![2] = ID_BROADCAST]),
   SubSeq(f, 1, 6),
   f \o <<0>>}

Frames == UNION {Arrivals(f) : f \in SentFrames}

\* a frame is put on the wire
Transmit ==
  /\ \E f \in Frames : ret' = [f |-> "frame", arg |-> f, val |-> 0]
  /\ last' = Step("transmit")
  /\ outbox' = <<>>
  /\ UNCHANGED <<hostVars, chanVars, looped, roundsLeft, stick>>

OnAir == ret.f \in {"frame", "on_data_recv", "receivePacket"}

\* the host's OnDataRecv(mac, data, len) on the frame in the air
HostRecvFrame ==
  /\ OnAir
  /\ IF Len(ret.arg) # PACKET_SIZE \/ ~validatePacket(ret.arg)
     THEN /\ last' = Step("OnDataRecv: return")
          /\ outbox' = <<>>
          /\ UNCHANGED <<hostVars, chanVars, ret, looped, roundsLeft, stick>>
     ELSE RecvPacket(ret.arg[3], ret.arg[4], ret.arg[5] * 256 + ret.arg[6])

\* the joystick's OnDataRecv(mac, data, len) on the frame in the air
StickRecvFrame ==
  /\ OnAir
  /\ LET pkt == ret.arg IN
     IF Len(pkt) # PACKET_SIZE THEN stick' = [stick EXCEPT !.out = <<>>, !.op = "OnDataRecv: return"]
     ELSE IF ~validatePacket(pkt) THEN stick' = [stick EXCEPT !.out = <<>>, !.op = "OnDataRecv: return"]
     ELSE IF pkt[2] # MY_ID /\ pkt[2] # ID_BROADCAST
          THEN stick' = [stick EXCEPT !.out = <<>>, !.op = "OnDataRecv: return"]
     ELSE stick' = [StickOnDataRecv(stick, pkt[4], pkt[5] * 256 + pkt[6])
                      EXCEPT !.out = <<>>, !.op = "OnDataRecv"]
  /\ StickFrame

\* the display's on_data_recv(info, data, len) on the frame in the air, sent
\* from the host's MAC address or from another one
DisplayRecvFrame ==
  /\ OnAir
  /\ \E fromHostMac \in BOOLEAN :
       ret' = [f |-> "on_data_recv", arg |-> ret.arg,
               val |-> on_data_recv(fromHostMac, ret.arg, Len(ret.arg))]
  /\ last' = Step("on_data_recv")
  /\ outbox' = <<>>
  /\ UNCHANGED <<hostVars, chanVars, looped, roundsLeft, stick>>

\* the display's receivePacket(serial, packet) with the frame in the serial buffer
SerialRecvFrame ==
  /\ OnAir
  /\ ret' = [f |-> "receivePacket", arg |-> ret.arg, val |-> receivePacket(ret.arg)]
  /\ last' = Step("receivePacket")
  /\ outbox' = <<>>
  /\ UNCHANGED <<hostVars, chanVars, looped, roundsLeft, stick>>

NextFrames ==
  \/ Transmit
  \/ HostRecvFrame
  \/ StickRecvFrame
  \/ DisplayRecvFrame
  \/ SerialRecvFrame

SpecFrames == InitStick(MODE_REACTION, {1000}, {"HIGH"}) /\ [][NextFrames]_vars

\* C22: every node computes the frame checksum identically: CRC8 and
\* calcCRC8 return the same value for the bytes of the frame, a sender's
\* frame carries in byte 6 the CRC of bytes 1 to 5, and receivePacket and
\* on_data_recv take a frame only if its byte 6 equals the CRC of its bytes
\* 1 to 5.
C22_SameChecksum ==
  /\ OnAir => CRC8(ret.arg, Len(ret.arg)) = calcCRC8(ret.arg, Len(ret.arg))
  /\ (ret.f = "frame" /\ ret.arg \in SentFrames) =>
        ret.arg[7] = CRC8(Bytes1to5(ret.arg), 5)
  /\ (ret.f \in {"on_data_recv", "receivePacket"} /\ ret.val > 0) =>
        /\ Len(ret.arg) >= PACKET_SIZE
        /\ ret.arg[7] = CRC8(Bytes1to5(ret.arg), 5)

\* the parts of C22 that hold: the two functions agree on every payload, ...
C22_FunctionsAgree == ret.f = "CRC8" => calcCRC8(ret.arg, 5) = ret.val

\* ... senders seal bytes 1 to 5, and the serial receiver checks bytes 1 to 5
C22_SerialAccepts ==
  /\ (ret.f = "frame" /\ ret.arg \in SentFrames) =>
        ret.arg[7] = CRC8(Bytes1to5(ret.arg), 5)
  /\ (ret.f = "receivePacket" /\ ret.val > 0) =>
        ret.arg[7] = CRC8(Bytes1to5(ret.arg), 5)

\* on_data_recv takes exactly the frames sealed over bytes 0 to 5
C22_DisplayAccepts ==
  (ret.f = "on_data_recv" /\ ret.val > 0) =>
     /\ ret.arg[7] = calcCRC8(ret.arg, 6)
     /\ ret.arg[7] # CRC8(Bytes1to5(ret.arg), 5)

\* the frame is malformed: wrong length, wrong start byte, or a byte 6 that
\* is not the CRC of bytes 1 to 5
Malformed(f) ==
  \/ Len(f) # PACKET_SIZE
  \/ f[1] # PACKET_START
  \/ f[7] # CRC8(Bytes1to5(f), 5)

\* the frame fails validation at the node with address me
Invalid(f, me) == Malformed(f) \/ (f[2] # me /\ f[2] # ID_BROADCAST)

\* the host drops the frame: no game, registry or pending-ack state changes
\* and nothing is transmitted
HostDrops == outbox' = <<>> /\ UNCHANGED <<hostVars, chanVars>>

\* the joystick drops the frame: only the record of the step changes
StickDrops == stick' = [stick EXCEPT !.out = <<>>, !.op = stick'.op]

C25_Step ==
  /\ (HostRecvFrame /\ Invalid(ret.arg, ID_HOST)) => HostDrops
  /\ (StickRecvFrame /\ Invalid(ret.arg, MY_ID)) => StickDrops
  /\ (DisplayRecvFrame /\ Invalid(ret.arg, ID_DISPLAY)) => ret'.val = 0

\* C25: a received frame whose length is not 7 bytes, or that fails
\* validation (wrong start byte, checksum mismatch, destination neither this
\* node nor broadcast), is dropped by the receive handlers of the host, of
\* the joystick and of the display without changing any state and without
\* any transmission.
C25_InvalidDropped == [][C25_Step]_vars

C25_StepMalformed ==
  /\ (HostRecvFrame /\ Malformed(ret.arg)) => HostDrops
  /\ (StickRecvFrame /\ Invalid(ret.arg, MY_ID)) => StickDrops

\* the part of C25 that holds: the host drops every malformed frame and the
\* joystick every invalid one
C25_MalformedDropped == [][C25_StepMalformed]_vars

\* the host handles a well-formed frame addressed to another node
C25_HostTakesForeign ==
  /\ OnAir
  /\ ~Malformed(ret.arg)
  /\ ret.arg[2] = OtherNode
  /\ last.op = "OnDataRecv"
  /\ last.src = ret.arg[3]
  /\ last.cmd = ret.arg[4]

\* the players whose score the step changes
ScoreChanged == {i \in Slots : players'[i].score # players[i].score}

\* the step is a call of handleShowResults
ShowsResults == last'.op = "handleShowResults" /\ gameState = STATE_SHOW_RESULTS

\* the step is the call of handleShowResults that runs phase 2
RunsPhase2 ==
  /\ ShowsResults
  /\ stateStartTime # Unset
  /\ ~resultsPhase2
  /\ stateStartTime > RESULTS_PHASE2_DELAY

C28_Step ==
  /\ RunsPhase2 =>
       IF findRoundWinner # NONE
       THEN /\ ScoreChanged = {findRoundWinner}
            /\ players'[findRoundWinner].score = players[findRoundWinner].score + 1
       ELSE ScoreChanged = {}
  /\ (ShowsResults /\ ~RunsPhase2) => ScoreChanged = {}
  /\ LeavesResults => (resultsPhase2 \/ RunsPhase2)
  /\ (ScoreChanged # {} /\ ~ShowsResults) =>
       /\ EntersIdle
       /\ \A i \in Slots : players'[i].score = 0

\* C28: during a visit of STATE_SHOW_RESULTS scores change once, in the call
\* of handleShowResults that runs phase 2, which every visit has before the
\* state is left: the score of the player findRoundWinner returns grows by 1
\* and no other score changes, and no score changes when there is no winner;
\* outside that call scores change only by the reset when STATE_IDLE is
\* entered.
C28_ScoresOnce == [][C28_Step]_vars

\* phase 2 has given the round to a player, who now has one point more than
\* the others
C28_Witness ==
  /\ gameState = STATE_SHOW_RESULTS
  /\ resultsPhase2
  /\ last.op = "handleShowResults"
  /\ findRoundWinner # NONE
  /\ players[findRoundWinner].score > 0

\* phase 2 has run in a round without a winner
C28_WitnessNoWinner ==
  /\ gameState = STATE_SHOW_RESULTS
  /\ resultsPhase2
  /\ last.op = "handleShowResults"
  /\ findRoundWinner = NONE

\* the sticks the step sends cmd to for the first time (not as a retry), and
\* the data it sends with cmd
FirstTo(cmd) ==
  {outbox'[k][1] : k \in {j \in 1 .. Len(outbox') : outbox'[j][2] = cmd /\ outbox'[j][4] = "first"}}
FirstData(cmd) ==
  {outbox'[k][3] : k \in {j \in 1 .. Len(outbox') : outbox'[j][2] = cmd /\ outbox'[j][4] = "first"}}

\* the sticks of the active players
ActiveSticks == {slotToStick[i] : i \in {j \in Slots : isActivePlayer(j)}}

C30_Step ==
  \* a countdown value goes to the active sticks, in a shake round, in order
  /\ FirstTo(CMD_COUNTDOWN) # {} =>
       /\ gameState = STATE_COUNTDOWN /\ gameState' = STATE_COUNTDOWN
       /\ gameMode = MODE_SHAKE
       /\ countdownNum \in 1 .. 3
       /\ FirstData(CMD_COUNTDOWN) = {countdownNum}
       /\ FirstTo(CMD_COUNTDOWN) = ActiveSticks
       /\ countdownNum' = countdownNum - 1
       /\ stateStartTime' = 0
       /\ countdownNum < 3 => stateStartTime > COUNTDOWN_TICK
       /\ FirstTo(CMD_GO) = {}
  \* the value still to be sent changes only when it is sent, and starts at 3
  /\ countdownNum' # countdownNum =>
       \/ FirstTo(CMD_COUNTDOWN) # {} /\ countdownNum' = countdownNum - 1
       \/ /\ last'.op = "handleCountdown" /\ stateStartTime = Unset
          /\ gameMode' = MODE_SHAKE /\ countdownNum' = 3
       \/ gameState # STATE_COUNTDOWN /\ countdownNum' = 3
  \* between two values the time since the last one does not go back
  /\ (gameState = STATE_COUNTDOWN /\ gameState' = STATE_COUNTDOWN /\ stateStartTime # Unset
      /\ FirstTo(CMD_COUNTDOWN) = {}) =>
       stateStartTime' >= stateStartTime
  \* CMD_GO
  /\ FirstTo(CMD_GO) # {} =>
       /\ FirstTo(CMD_GO) = ActiveSticks
       /\ IF gameMode = MODE_SHAKE
          THEN /\ gameState = STATE_COUNTDOWN /\ gameState' = STATE_SHAKE
               /\ countdownNum = 0
               /\ stateStartTime > COUNTDOWN_TICK
          ELSE /\ gameState = STATE_REACTION /\ gameState' = STATE_COLLECT
               /\ reactionAnnouncementDone
               /\ stateStartTime >= REACT_DELAYS[delayIdx + 1]

\* C30: in a shake round the host sends CMD_COUNTDOWN with 3, then 2, then 1
\* to the active sticks, each value once and successive values more than
\* COUNTDOWN_TICK apart, and sends CMD_GO only after the value 1; in a
\* reaction round it sends no CMD_COUNTDOWN and sends CMD_GO only from
\* STATE_REACTION once the selected delay has elapsed.
C30_CountdownThenGo == [][C30_Step]_vars

\* the value 1 has just been sent, the third value of the round
C30_Witness ==
  /\ gameState = STATE_COUNTDOWN
  /\ gameMode = MODE_SHAKE
  /\ countdownNum = 0
  /\ \E k \in 1 .. Len(outbox) : outbox[k][2] = CMD_COUNTDOWN /\ outbox[k][3] = 1

\* CMD_GO has just been sent in a reaction round
C30_WitnessReaction ==
  /\ gameState = STATE_COLLECT
  /\ gameMode = MODE_REACTION
  /\ \E k \in 1 .. Len(outbox) : outbox[k][2] = CMD_GO /\ outbox[k][4] = "first"

\* ------------------------------------------------------------------------
\* The random delay of a reaction round and what the host transmits
\* ------------------------------------------------------------------------
\* the values delayIdx can take
DelayIdxs == 0 .. (NUM_REACT_DELAYS - 1)

\* handleReaction reading d sends no CMD_GO in this iteration
HoldsBack(d) ==
  ~(reactionAnnouncementDone /\ stateStartTime # Unset /\ stateStartTime >= REACT_DELAYS[d + 1])

C31_Step ==
  \* the announcement of the round: the same packets, pending commands and
  \* state whichever index was drawn
  /\ (last'.op = "handleCountdown" /\ gameState' = STATE_REACTION) =>
       /\ \A d \in DelayIdxs :
            \E ch \in {announceReaction(updateRetries, d)} :
               outbox' = ch.out /\ pendingAcks' = ch.pa /\ txCount' = ch.tx /\ fate' = ch.fate
       /\ stateStartTime' = Unset
       /\ reactionAnnouncementDone' = FALSE
       /\ FirstTo(CMD_GO) = {}
  \* an iteration of handleReaction before CMD_GO: it is the very step the
  \* handler takes with any other index that has not run out either
  /\ (last'.op = "handleReaction" /\ gameState = STATE_REACTION /\ FirstTo(CMD_GO) = {}) =>
       \A d \in DelayIdxs : HoldsBack(d) => handleReaction(d)
  \* CMD_GO leaves handleReaction only when the delay of the index has run out
  /\ (gameState = STATE_REACTION /\ FirstTo(CMD_GO) # {}) =>
       /\ last'.op = "handleReaction"
       /\ ~HoldsBack(delayIdx)
  \* nothing else transmits, or changes the index, during the round
  /\ (gameState = STATE_REACTION /\ last'.op # "handleReaction") =>
       outbox' = <<>> /\ delayIdx' = delayIdx

\* C31: in a reaction round the packets the host transmits before CMD_GO, and
\* the state they are computed from, are the same for every value of
\* delayIdx: the announcement carries no delay, and each iteration of
\* handleReaction before CMD_GO is the step it takes with any other index
\* whose delay has not elapsed either.
C31_DelayNotLeaked == [][C31_Step]_vars

\* the longest delay was drawn, the shortest has elapsed, and the host has
\* just iterated without CMD_GO
C31_Witness ==
  /\ gameState = STATE_REACTION
  /\ last.op = "handleReaction"
  /\ reactionAnnouncementDone
  /\ delayIdx = NUM_REACT_DELAYS - 1
  /\ stateStartTime >= REACT_DELAYS[1]

\* the announcement has just been sent
C31_WitnessAnnounce ==
  /\ gameState = STATE_REACTION
  /\ last.op = "handleCountdown"
  /\ \E k \in 1 .. Len(outbox) : outbox[k][2] = CMD_GAME_START /\ outbox[k][4] = "first"

\* ------------------------------------------------------------------------
\* SpecIsr: the joystick in reaction rounds with the button interrupt at
\* every point it can be taken.  The ESP-NOW callback and loop() run to
\* completion with respect to each other (the callback runs in the system
\* context, entered from yield()); onButton is an interrupt handler and is
\* also taken between two statements of runJoystick.  Inside OnDataRecv an
\* interrupt leaves the same state as one taken just before or just after
\* the callback: CMD_GAME_START and CMD_IDLE clear g_button_pressed last,
\* and handleGO runs only while jsState is JS_WAITING_GO, where onButton
\* does nothing.  The host's commands arrive in any order and any number of
\* times, until the joystick has sent MaxUplink packets.
\* ------------------------------------------------------------------------
MaxUplink == 2

\* the commands the host sends to a joystick in reaction rounds
HostCmds ==
  {<<CMD_GAME_START, MODE_REACTION * 256>>, <<CMD_GO, 0>>, <<CMD_IDLE, 0>>, <<CMD_COUNTDOWN, 3>>}

\* OnDataRecv for any command of the host
StickRecvAny ==
  /\ Len(stick.uplink) < MaxUplink
  /\ \E c \in HostCmds :
       stick' = [StickOnDataRecv(stick, c[1], c[2]) EXCEPT !.out = <<>>, !.op = "OnDataRecv"]
  /\ StickFrame

\* case JS_WAITING_GO in reaction mode, the falling edge after
\* "digitalRead(PIN_BUTTON) == LOW" has read HIGH and before
\* "jsState = JS_REACTION_TIMING"
runWaitingGoIsr(s) ==
  [onButton([s EXCEPT !.pin = "LOW"]) EXCEPT !.jsState = JS_REACTION_TIMING, !.early = FALSE]

\* case JS_REACTION_TIMING, the falling edge after "if (g_button_pressed)"
\* has read the flag
runReactionTimingIsr(s) ==
  runReactionTimingSeen(onButton([s EXCEPT !.pin = "LOW"]), s.g_button_pressed)

\* loop(): runJoystick() interrupted by onButton
RunJoystickIsr ==
  /\ stick.pin = "HIGH"
  /\ \/ /\ stick.jsState = JS_WAITING_GO /\ stick.g_go_received
        /\ stick.currentMode = MODE_REACTION
        /\ stick' = [runWaitingGoIsr(stick) EXCEPT !.out = <<>>, !.pass = 1 - @,
                                                   !.op = "runJoystick"]
     \/ /\ stick.jsState = JS_REACTION_TIMING
        /\ stick' = [runReactionTimingIsr([stick EXCEPT !.out = <<>>, !.pass = 1 - @])
                       EXCEPT !.op = "runJoystick"]
  /\ StickFrame

NextIsr ==
  \/ StickTick
  \/ StickRecvAny
  \/ ButtonPress
  \/ ButtonRelease
  \/ RunJoystick
  \/ RunJoystickIsr

SpecIsr == InitStick(MODE_REACTION, BootAges, {"HIGH", "LOW"}) /\ [][NextIsr]_vars

\* the value runJoystick reports for a press at clock b after GO at clock g
Measured(g, b) ==
  LET ms == (((b - g) % MicrosWrap) \div UnitsPerMs) % 65536 IN IF ms = 0 THEN 1 ELSE ms

C32_Step ==
  (IsRunJoystick /\ stick.jsState = JS_REACTION_TIMING /\ stick.g_button_pressed) =>
     /\ stick.g_go_received
     /\ stick.g_go_time_us = stick.goClock % MicrosWrap
     /\ stick.startClock <= stick.goClock
     /\ stick'.g_button_time_us = stick'.pressClock % MicrosWrap
     /\ stick.goClock <= stick'.pressClock
     /\ stick'.pressClock <= stick.clock
     /\ Len(stick'.out) >= 1
     /\ stick'.out[1] = <<CMD_REACTION_DONE, Measured(stick.goClock, stick'.pressClock)>>

\* C32: whenever a pass of runJoystick in JS_REACTION_TIMING observes
\* g_button_pressed, g_go_time_us is the timestamp handleGO took for the GO
\* of the current round and g_button_time_us the timestamp onButton took for
\* a press at or after that GO and not after the pass, so the reported
\* difference is the time from GO to the press; for every order of onButton,
\* OnDataRecv and the passes of runJoystick, the interrupt inside a pass
\* included.
C32_FreshTimestamp == [][C32_Step]_vars

\* a press taken a timeout and a half after GO has just been reported
C32_Witness ==
  /\ stick.op = "runJoystick"
  /\ stick.jsState = JS_DONE
  /\ stick.pressClock > stick.goClock
  /\ Len(stick.out) >= 1
  /\ stick.out[1] = <<CMD_REACTION_DONE, Measured(stick.goClock, stick.pressClock)>>
  /\ stick.out[1][2] # TIME_PENALTY

\* a second round: GO handled after an earlier press had been reported, and
\* the press of this round observed
C32_WitnessSecondRound ==
  /\ stick.op = "runJoystick"
  /\ stick.jsState = JS_DONE
  /\ stick.startClock > 1000 * UnitsPerMs
  /\ stick.startClock # (MicrosWrapMs - (STICK_TIMEOUT_REACTION \div 2)) * UnitsPerMs
  /\ stick.startClock # (MicrosWrapMs + 1000) * UnitsPerMs
  /\ Len(stick.out) >= 1
  /\ stick.out[1] = <<CMD_REACTION_DONE, Measured(stick.goClock, stick.pressClock)>>
  /\ stick.pressClock >= stick.goClock

\* ------------------------------------------------------------------------
\* The end of shake counting on the joystick (SpecShake)
\* ------------------------------------------------------------------------
\* the pass is made in JS_SHAKE_COUNTING more than TIMEOUT_SHAKE after shakeReset
ShakeOverdue ==
  /\ IsRunJoystick
  /\ stick.jsState = JS_SHAKE_COUNTING
  /\ millis(stick) - stick.shakeStartTime_ms > STICK_TIMEOUT_SHAKE

\* the pass ends the counting with one CMD_SHAKE_DONE: the elapsed time
\* capped at 0xFFFE when the target is reached, TIME_PENALTY otherwise
ShakeEnds ==
  /\ stick'.jsState = JS_DONE
  /\ stick'.out = << <<CMD_SHAKE_DONE,
                       IF stick'.shakeCount >= stick.shakeTarget
                       THEN Min(millis(stick) - stick.shakeStartTime_ms, 65534)
                       ELSE TIME_PENALTY>> >>

\* C33: a pass of runJoystick in JS_SHAKE_COUNTING made once TIMEOUT_SHAKE
\* has elapsed ends the counting (CMD_SHAKE_DONE with the time or with
\* TIME_PENALTY, then JS_DONE), whatever the accelerometer read returns.
C33_ShakeEnds == [][ShakeOverdue => ShakeEnds]_vars

\* the same for the passes whose sample reaches the hysteresis latch
C33_EndsWhenSampled == [][(ShakeOverdue /\ stick'.samples # stick.samples) => ShakeEnds]_vars

\* ------------------------------------------------------------------------
\* SpecDup: the joystick receiving the host's commands, each any number of
\* times (the host retransmits a command until it is acknowledged, and the
\* joystick never acknowledges), in reaction rounds.  ret holds the command received last and
\* the parity of the receptions.
\* ------------------------------------------------------------------------
StickRecvDup ==
  /\ Len(stick.uplink) < MaxUplink
  /\ \E c \in HostCmds :
       /\ stick' = [StickOnDataRecv(stick, c[1], c[2]) EXCEPT !.out = <<>>, !.op = "OnDataRecv"]
       /\ ret' = [f |-> "OnDataRecv", arg |-> c, val |-> 1 - ret.val]
  /\ UNCHANGED <<hostVars, chanVars, outbox, last, looped, roundsLeft>>

NextDup ==
  \/ StickTick
  \/ StickRecvDup
  \/ ButtonPress
  \/ ButtonRelease
  \/ RunJoystick

SpecDup == InitStick(MODE_REACTION, {1000}, {"HIGH"}) /\ [][NextDup]_vars

\* the step is a reception of the command received last
IsDuplicate == ret.f = "OnDataRecv" /\ ret'.val # ret.val /\ ret'.arg = ret.arg

\* what decides the result packet of the round
RoundState(s) ==
  <<s.jsState, s.currentMode, s.shakeTarget, s.g_go_received, s.g_go_time_us,
    s.g_button_pressed, s.g_button_time_us>>

\* C34: receiving the command received last once more leaves jsState, the
\* mode, the target, the GO flag and the GO timestamp (and the captured
\* press) as they are, at whatever point the duplicate arrives.
C34_Idempotent == [][IsDuplicate => RoundState(stick') = RoundState(stick)]_vars

\* the same for every command but CMD_GO
C34_IdempotentButGo ==
  [][(IsDuplicate /\ ret.arg[1] # CMD_GO) => RoundState(stick') = RoundState(stick)]_vars

\* the same for a CMD_GO that runJoystick has acted on
C34_IdempotentAfterPass ==
  [][(IsDuplicate /\ stick.jsState # JS_WAITING_GO) => RoundState(stick') = RoundState(stick)]_vars

\* ------------------------------------------------------------------------
\* The registry of players (SpecMatch, SpecJoin)
\* ------------------------------------------------------------------------
C35_Counts ==
  /\ joinedCount = Cardinality({i \in Slots : slotToStick[i] # NONE})
  /\ joinedCount = Cardinality({i \in Slots : players[i].joined})
  /\ joinedCount = Cardinality({k \in Slots : stickClaimed[k] # 0})
  /\ \A i \in Slots : players[i].joined <=> slotToStick[i] # NONE
  /\ \A i, j \in Slots : (slotToStick[i] # NONE /\ slotToStick[i] = slotToStick[j]) => i = j
  /\ joinedCount <= MAX_PLAYERS

C35_Step ==
  (gameState # STATE_JOIN /\ ~EntersIdle) =>
     /\ UNCHANGED <<joinedCount, slotToStick, stickClaimed>>
     /\ \A i \in Slots : players'[i].joined = players[i].joined

\* C35: joinedCount is the number of slots with an owner in slotToStick, the
\* number of joined players and the number of sticks marked in stickClaimed;
\* the joined slots are the owned ones and no stick owns two; joinedCount is
\* at most MAX_PLAYERS; and none of it changes from the end of STATE_JOIN to
\* the reset of the next entry into STATE_IDLE.
C35_Registry == []C35_Counts /\ [][C35_Step]_vars

\* the second match: a stick has joined after the reset of handleIdle, and a
\* request of its own for the next slot has just been refused
C35_Witness ==
  /\ gameState = STATE_JOIN
  /\ last.op = "OnDataRecv" /\ last.cmd = CMD_REQ_ID
  /\ joinedCount = 1
  /\ stickClaimed[last.src - ID_STICK1] = 1
  /\ slotToStick[currentPromptSlot] = NONE
  /\ roundsLeft < MaxRounds

\* ------------------------------------------------------------------------
\* The result packets of a round (SpecStick, SpecShake)
\* ------------------------------------------------------------------------
\* the result packets the step sends
ResultsSent ==
  {k \in 1 .. Len(stick'.out) : stick'.out[k][1] \in {CMD_REACTION_DONE, CMD_SHAKE_DONE}}

C36_Step ==
  /\ IsRunJoystick =>
       /\ Cardinality(ResultsSent) <= 1
       /\ ResultsSent # {} =>
            /\ stick.g_go_received
            /\ stick.jsState \in {JS_WAITING_GO, JS_REACTION_TIMING, JS_SHAKE_COUNTING}
            /\ stick'.jsState = JS_DONE
  /\ Len(stick'.uplink) > Len(stick.uplink) => IsRunJoystick
  /\ (stick.jsState = JS_DONE /\ stick'.jsState # JS_DONE) =>
       stick'.jsState \in {JS_WAITING_GO, JS_IDLE} /\ ~stick'.g_go_received

\* C36: a pass of runJoystick sends at most one result packet, only in a
\* round whose GO has been accepted, and then enters JS_DONE, which sends
\* nothing and is left only by CMD_GAME_START or CMD_IDLE: at most one result
\* per accepted GO, whenever the button is pressed.
C36_OneResult == [][C36_Step]_vars

\* the same for the passes that do not observe a press once the timeout of
\* the joystick has elapsed
C36_OneResultUnlessLate ==
  [][~(/\ stick.jsState = JS_REACTION_TIMING /\ stick'.g_button_pressed
       /\ millis(stick) > (stick.g_go_time_us \div UnitsPerMs) + STICK_TIMEOUT_REACTION)
      => C36_Step]_vars

\* the same for a GO handled before micros() has wrapped
C36_OneResultBeforeWrap == [][stick.goClock < MicrosWrap => C36_Step]_vars

\* ------------------------------------------------------------------------
\* The penalty of a reaction round (SpecStick)
\* ------------------------------------------------------------------------
\* the pass reports TIME_PENALTY in a reaction round
SendsPenalty ==
  /\ IsRunJoystick
  /\ stick.currentMode = MODE_REACTION
  /\ \E k \in 1 .. Len(stick'.out) : stick'.out[k] = <<CMD_REACTION_DONE, TIME_PENALTY>>

C37_Step ==
  SendsPenalty =>
    \/ stick.downAtGo
    \/ /\ ~stick.edge
       /\ millis(stick) - (stick.goClock \div UnitsPerMs) > STICK_TIMEOUT_REACTION

\* C37: in a reaction round the joystick reports TIME_PENALTY only when the
\* button was down as GO was received, or when it has not gone down since GO
\* and TIMEOUT_REACTION has elapsed; a press made after handleGO recorded the
\* GO timestamp is not answered with the penalty.
C37_PenaltyOnlyEarlyOrLate == [][C37_Step]_vars

\* the same for a GO handled before micros() has wrapped and the passes that
\* send one packet
C37_BeforeWrapOnePacket ==
  [][(stick.goClock < MicrosWrap /\ Len(stick'.out) <= 1) => C37_Step]_vars

\* the penalty is sent only by the pass that finds the button down on
\* processing GO, or by a pass whose timeout test succeeds
C37_PenaltyFromCode ==
  [][SendsPenalty =>
       \/ stick.jsState = JS_WAITING_GO /\ stick.g_go_received /\ stick'.early
       \/ /\ stick.jsState = JS_REACTION_TIMING
          /\ millis(stick) > (stick.g_go_time_us \div UnitsPerMs) + STICK_TIMEOUT_REACTION]_vars

\* ------------------------------------------------------------------------
\* SpecAck: the ACK + retry layer with the display answering.  The host
\* sends the countdown values to the display with sendWithRetry; the display
\* answers a command it receives with send_ack(cmd), whose packet carries the
\* command code alone; the radio delivers the ACK after any delay, also more
\* than once.  ret holds the ACK in the air and the command it was generated
\* for.
\* ------------------------------------------------------------------------
\* <<cmd, data>> of the commands sent to the display
CountdownCmds == {<<DISP_COUNTDOWN, 3>>, <<DISP_COUNTDOWN, 2>>}

\* sendToDisplayWithRetry(DISP_COUNTDOWN, 0, countdownNum)
CallSendCountdown ==
  /\ \E m \in CountdownCmds :
       /\ SetChan(sendToDisplayWithRetry(chan0, m[1], 0, m[2]))
       /\ last' = [op |-> "sendWithRetry", src |-> ID_DISPLAY, cmd |-> m[1], data |-> m[2],
                   found |-> pendingAcks[ackSlotFor(ID_DISPLAY)].waiting]
  /\ UNCHANGED <<hostVars, ret, looped, roundsLeft, stick>>

\* the display receives a packet the host has just transmitted to it and
\* calls send_ack(cmd): "buildPacket(&pkt, ID_HOST, ID_DISPLAY, CMD_ACK, acked_cmd)"
DisplayAcks ==
  /\ \E k \in 1 .. Len(outbox) :
       /\ outbox[k][1] = ID_DISPLAY
       /\ ret' = [f |-> "send_ack", arg |-> <<outbox[k][2], outbox[k][3]>>, val |-> outbox[k][2]]
  /\ last' = Step("on_data_recv")
  /\ outbox' = <<>>
  /\ UNCHANGED <<hostVars, chanVars, looped, roundsLeft, stick>>

\* the host receives the ACK in the air
DeliverAck ==
  /\ ret.f = "send_ack"
  /\ RecvPacket(ID_DISPLAY, CMD_ACK, ret.val)

NextAck ==
  \/ Tick(FineQuantum)
  \/ CallSendCountdown
  \/ CallUpdateRetries
  \/ DisplayAcks
  \/ DeliverAck

SpecAck == Init /\ [][NextAck]_vars

\* the step is handleAck clearing the display's slot
ClearsDisplaySlot ==
  /\ last'.op = "OnDataRecv" /\ last'.cmd = CMD_ACK
  /\ pendingAcks[ackSlotFor(ID_DISPLAY)].waiting
  /\ ~pendingAcks'[ackSlotFor(ID_DISPLAY)].waiting

\* C38: handleAck clears the pending command of the display only on an ACK
\* the display generated for that very command, code and data: an ACK for an
\* earlier command with the same code and other data leaves it pending.
C38_OwnAckOnly ==
  [][ClearsDisplaySlot =>
       ret.arg = <<pendingAcks[ackSlotFor(ID_DISPLAY)].cmd,
                   pendingAcks[ackSlotFor(ID_DISPLAY)].data>>]_vars

\* the same for the command code alone
C38_OwnCodeOnly ==
  [][ClearsDisplaySlot => ret.arg[1] = pendingAcks[ackSlotFor(ID_DISPLAY)].cmd]_vars

\* ------------------------------------------------------------------------
\* The winner of the match (SpecResults)
\* ------------------------------------------------------------------------
\* handleFinalWinner announces a winner in this step
AnnouncesWinner ==
  /\ last'.op = "handleFinalWinner"
  /\ gameState = STATE_FINAL_WINNER /\ stateStartTime = Unset
  /\ findFinalWinner # NONE

\* the joined players with the highest score
Leaders ==
  {i \in Slots : players[i].joined /\ \A j \in Slots : players[j].joined =>
                                         players[j].score <= players[i].score}

\* C39: whenever handleFinalWinner announces a winner, that player's score
\* is strictly greater than the score of every other joined player.
C39_StrictWinner ==
  [][AnnouncesWinner =>
       \A j \in Slots : (players[j].joined /\ j # findFinalWinner) =>
                           players[j].score < players[findFinalWinner].score]_vars

\* the announced winner is the lowest slot among the leaders, has a score
\* above 0, and leads alone unless three or four joined players are level
\* at the top
C39_FirstLeader ==
  [][AnnouncesWinner =>
       /\ findFinalWinner \in Leaders
       /\ \A j \in Leaders : findFinalWinner <= j
       /\ players[findFinalWinner].score > 0
       /\ Cardinality(Leaders) # 2
       /\ SendsTo(ID_DISPLAY, DISP_FINAL_WINNER)]_vars

\* ------------------------------------------------------------------------
\* The claim windows of the join phase (SpecJoin)
\* ------------------------------------------------------------------------
\* handleJoin calls startPromptSlot in this step
OpensWindow ==
  /\ last'.op = "handleJoin"
  /\ gameState = STATE_JOIN
  /\ \E k \in 1 .. Len(outbox') :
       /\ outbox'[k] = <<ID_DISPLAY, DISP_PLAYER_PROMPT, currentPromptSlot' + 1, "first">>

\* handleJoin restarts the prompts after a pass that left fewer than two joined
Restarts == OpensWindow /\ stateStartTime # Unset /\ nextUnclaimed(currentPromptSlot + 1) >= MAX_PLAYERS

\* C40: in STATE_JOIN startPromptSlot is never called for a slot that is
\* already claimed, also when the prompts restart after a pass with fewer
\* than two joined players: the slot of every window opened is free, so a
\* request of a stick that has not claimed succeeds in it.
C40_WindowsUnclaimed == [][OpensWindow => slotToStick[currentPromptSlot'] = NONE]_vars

\* the same for the windows handleJoin opens after its first pass: the
\* restart alone opens the window of a claimed slot
C40_UnclaimedAfterEntry ==
  [][(OpensWindow /\ stateStartTime # Unset) => slotToStick[currentPromptSlot'] = NONE]_vars

\* a window opened by advancing to the next slot is the window of a free slot
C40_UnclaimedWhenAdvancing ==
  [][(OpensWindow /\ stateStartTime # Unset /\ ~Restarts) => slotToStick[currentPromptSlot'] = NONE]_vars

\* a restart opens the window of slot 0, claimed or not
C40_RestartAtZero == [][Restarts => currentPromptSlot' = 0 /\ joinedCount < 2]_vars

\* in the window a restart opened for a claimed slot a request of a stick
\* that has not claimed is refused
C40_RefusedInWindow ==
  [][(/\ last'.op = "OnDataRecv" /\ last'.cmd = CMD_REQ_ID /\ last' # last
      /\ gameState = STATE_JOIN /\ slotToStick[currentPromptSlot] # NONE)
     => UNCHANGED <<slotToStick, joinedCount>>]_vars

====
